---- MODULE Spec2Model ----
(***************************************************************************)
(* The two tone engines of the tutorial: SoundManager                      *)
(* (01-basic-sound-manager/SoundManager.js) and BreakoutAudioEngine        *)
(* (02-breakout-game/audio-breakout.js), together with the part of the     *)
(* platform they call into: AudioContext construction, its state and       *)
(* clock, the oscillator/gain graph a voice consists of, and the           *)
(* setTimeout queue the phrase methods use.                                *)
(*                                                                         *)
(* Units.  Wall-clock and audio-clock times are in milliseconds (the       *)
(* setTimeout delays of the source are milliseconds, its durations are     *)
(* seconds: 0.1 s is 100).  Volumes are in hundredths (0.3 is 30) and      *)
(* gain values in ten-thousandths (0.01 is 100), so that the product       *)
(* volume * masterVolume of two hundredths is an exact gain value.         *)
(***************************************************************************)
EXTENDS Integers, Sequences, FiniteSets, TLC

(***************************************************************************)
(* Bounds of the model.                                                    *)
(***************************************************************************)
MaxOps == 2          \* outside events per behaviour: API calls other than phrase methods,
                     \* the user gesture, platform changes
MaxPhrases == 1      \* phrase method calls per behaviour
MaxTime == 900       \* wall clock, ms
TickStep == 900      \* longest idle step of the wall clock, ms
MaxMusicOps == 4     \* MusicPlayer calls per behaviour
MaxMusicTime == 1200 \* wall clock of a MusicPlayer behaviour, ms
MusicTickStep == 300 \* longest idle step of that clock, ms
MaxThrottleOps == 4  \* ThrottledSound calls per behaviour
MaxThrottleTime == 1150  \* latest Date.now() of a ThrottledSound behaviour, ms

NULL == 0

Engines == {"SoundManager", "BreakoutAudioEngine"}

VARIABLES
    engine,        \* which engine class this instance is
    audioContext,  \* this.audioContext (SoundManager) / this.context (Breakout); NULL or a context id
    enabled,       \* this.enabled
    masterVolume,  \* this.masterVolume (BreakoutAudioEngine only), hundredths
    ctxSeq,        \* number of AudioContext objects constructed so far; their ids are 1..ctxSeq
    ctxState,      \* AudioContext.state of every constructed context
    currentTime,   \* AudioContext.currentTime of every constructed context, ms
    voices,        \* every oscillator+gain pair that was fully set up, in creation order
    timers,        \* pending setTimeout callbacks, in registration order
    now,           \* wall clock, ms
    calls,         \* history: every playTone invocation
    phrases,       \* history: every phrase method call
    closed,        \* history: every AudioContext.close(), with the numbers of voices and calls until then
    lastOp,        \* history: the latest operation and whether it threw to its caller
    userActivated, \* platform: the page has had a user gesture (autoplay policy)
    platformFault, \* platform: the allocation it currently refuses, "none" if it refuses nothing
    nOps,          \* number of outside events other than phrase method calls so far
    \* MusicPlayer (01-basic-sound-manager/SoundManager.js); its this.context is audioContext
    currentSource, \* this.currentSource: NULL or a buffer source id
    currentGain,   \* this.currentGain: NULL or a gain node id
    isPlaying,     \* this.isPlaying
    currentBuffer, \* this.currentBuffer: NULL or a buffer name
    sources,       \* every AudioBufferSourceNode created, in creation order
    gains,         \* the gain AudioParam of every per-track GainNode created: its event list
    masterGain,    \* this.masterGain: its gain AudioParam and where it is connected
    musicLog,      \* history: every MusicPlayer call and callback, with the state it found
    \* ThrottledSound (EXAMPLES.md)
    minInterval,   \* this.minInterval, ms
    lastPlayed,    \* this.lastPlayed, ms since the epoch
    throttleLog,   \* history: every ThrottledSound call
    \* AudioFileManager (04-audio-file-manager/AudioFileManager.js); its this.context is audioContext
    buffers,       \* this.buffers: a map from sound names to decoded buffers
    loads,         \* every loadSound call: its arguments, how far it has come, what it resolved to
    fileSources,   \* every AudioBufferSourceNode the manager created, in creation order
    fileMasterGain,\* this.masterGain: the value of its gain AudioParam and where it is connected
    fileLog,       \* history: every synchronous AudioFileManager call, with what it returned
    \* AudioUnlocker (EXAMPLES.md); its this.context is audioContext
    unlocked,      \* this.unlocked
    listeners,     \* this.listeners: the registered callbacks, in registration order
    unlocking,     \* every unlock() call: how far it has come, what it resolved to
    unlockHandlers,\* the unlockHandler closures of setupAutoUnlock still registered on the document
    throwing,      \* the callbacks that throw when they are invoked
    invocations,   \* history: how often each callback has been invoked
    \* AudioPreferences (EXAMPLES.md)
    preferences,   \* this.preferences
    storage,       \* localStorage: the item stored under this.storageKey, NULL if none
    prefLog,       \* history: every AudioPreferences call
    \* AudioPool (EXAMPLES.md)
    pool,          \* this.pool: the pooled gain nodes
    maxSize,       \* this.maxSize
    poolNodes,     \* every GainNode the pool has handed out or holds: connected or not, its gain
    poolLog,       \* history: every AudioPool call
    \* BreakoutGame (02-breakout-game/audio-breakout.js)
    lives,         \* this.lives
    score,         \* this.score
    gameActive,    \* this.gameActive
    bricksAlive,   \* how many bricks of this.bricks are alive
    looping        \* gameLoop is scheduled for the next animation frame

musicVars == <<currentSource, currentGain, isPlaying, currentBuffer, sources, gains,
               masterGain, musicLog>>
throttleVars == <<minInterval, lastPlayed, throttleLog>>
fileVars == <<buffers, loads, fileSources, fileMasterGain, fileLog>>
unlockVars == <<unlocked, listeners, unlocking, unlockHandlers, throwing, invocations>>
prefVars == <<preferences, storage, prefLog>>
poolVars == <<pool, maxSize, poolNodes, poolLog>>
gameVars == <<lives, score, gameActive, bricksAlive, looping>>

\* The variables of the classes other than the two tone engines.
notToneVars == <<musicVars, throttleVars, fileVars, unlockVars, prefVars, poolVars, gameVars>>

\* The fields and histories of the tone engines that no other class has.
toneOnlyVars == <<enabled, masterVolume, voices, calls, phrases, closed, userActivated,
                  platformFault>>

vars == <<engine, audioContext, enabled, masterVolume, ctxSeq, ctxState,
          currentTime, voices, timers, now, calls, phrases, closed, lastOp,
          userActivated, platformFault, nOps, musicVars, throttleVars,
          fileVars, unlockVars, prefVars, poolVars, gameVars>>

(***************************************************************************)
(* Program constants.                                                       *)
(***************************************************************************)
RampFloor == 100             \* 0.01, the exponentialRampToValueAtTime target
DefaultMasterVolume == 70    \* 0.7

(***************************************************************************)
(* Inputs.                                                                  *)
(***************************************************************************)
ToneFreqs == {440}
ToneDurations == {100}
ToneTypes == {"sine"}
ToneVolumes == {0, 30}
SetVolumeArgs == {-50, 0, 50, 150}
Variations == {-10, 5}
BrickRows == {0, 5}

\* What the platform may refuse: nothing, the AudioContext constructor
\* (audio denied), createOscillator or createGain (resources exhausted).  The
\* refused call throws.
PlatformFaults == {"none", "ctx", "osc", "gain"}

\* A volume (hundredths) used as an AudioParam value (ten-thousandths).
GainValue(volume) == volume * 100

Min(a, b) == IF a < b THEN a ELSE b
Max(a, b) == IF a > b THEN a ELSE b

(***************************************************************************)
(* The engine-and-platform state a playTone call reads and writes.         *)
(***************************************************************************)
Cur == [audioContext |-> audioContext, ctxSeq |-> ctxSeq, ctxState |-> ctxState,
        currentTime |-> currentTime, voices |-> voices]

\* new AudioContext(): a fresh object, clock at 0; the autoplay policy lets it
\* run only once the page has had a user gesture.
NewAudioContext(S) ==
    LET id == S.ctxSeq + 1
        state == IF userActivated THEN "running" ELSE "suspended" IN
    [S EXCEPT !.audioContext = id,
              !.ctxSeq = id,
              !.ctxState = [c \in 1..id |-> IF c = id THEN state ELSE S.ctxState[c]],
              !.currentTime = [c \in 1..id |-> IF c = id THEN 0 ELSE S.currentTime[c]]]

\* getContext without the test for an existing context.
getContext_Always(S, p) ==
    IF p = "ctx"
    THEN [S |-> S, threw |-> TRUE]
    ELSE [S |-> NewAudioContext(S), threw |-> FALSE]

\* SoundManager.getContext / BreakoutAudioEngine.init: create the context when
\* there is none.  threw: the constructor threw and nothing was assigned.
getContext(S, p) ==
    IF S.audioContext = NULL
    THEN IF p = "ctx"
         THEN [S |-> S, threw |-> TRUE]
         ELSE [S |-> NewAudioContext(S), threw |-> FALSE]
    ELSE [S |-> S, threw |-> FALSE]

\* A voice whose gain node feeds a master gain node instead of the destination.
Voice_ViaMasterGain(ctx, t, frequency, duration, type, gainValue) ==
    [ctx |-> ctx,
     type |-> type,
     frequency |-> frequency,
     out |-> "masterGain",
     gain |-> << [op |-> "setValueAtTime", value |-> gainValue, time |-> t],
                 [op |-> "exponentialRampToValueAtTime", value |-> RampFloor, time |-> t + duration] >>,
     start |-> << t >>,
     stop |-> << t + duration >>]

\* A voice whose stop is scheduled at the start time.
Voice_StopAtStart(ctx, t, frequency, duration, type, gainValue) ==
    [ctx |-> ctx,
     type |-> type,
     frequency |-> frequency,
     out |-> "destination",
     gain |-> << [op |-> "setValueAtTime", value |-> gainValue, time |-> t],
                 [op |-> "exponentialRampToValueAtTime", value |-> RampFloor, time |-> t + duration] >>,
     start |-> << t >>,
     stop |-> << t >>]

\* The oscillator -> gain -> destination path of one tone, with its schedule.
Voice(ctx, t, frequency, duration, type, gainValue) ==
    [ctx |-> ctx,
     type |-> type,
     frequency |-> frequency,
     out |-> "destination",
     gain |-> << [op |-> "setValueAtTime", value |-> gainValue, time |-> t],
                 [op |-> "exponentialRampToValueAtTime", value |-> RampFloor, time |-> t + duration] >>,
     start |-> << t >>,
     stop |-> << t + duration >>]

\* A playTone that starts its voice only when the voice before it has stopped.
ScheduleVoice_Queued(S, frequency, duration, type, gainValue, p) ==
    IF p \in {"osc", "gain"}
    THEN S
    ELSE LET ctx == S.audioContext
             free == IF S.voices = << >> THEN 0 ELSE S.voices[Len(S.voices)].stop[1]
             v == Voice(ctx, Max(S.currentTime[ctx], free), frequency, duration, type, gainValue)
         IN [S EXCEPT !.voices = Append(S.voices, v)]

\* The try block shared by both playTone methods: allocate, connect, schedule.
\* An exception from createOscillator or createGain leaves no voice behind.
ScheduleVoice(S, frequency, duration, type, gainValue, p) ==
    IF p \in {"osc", "gain"}
    THEN S
    ELSE LET ctx == S.audioContext
             v == Voice(ctx, S.currentTime[ctx], frequency, duration, type, gainValue)
         IN [S EXCEPT !.voices = Append(S.voices, v)]

\* SoundManager.playTone without its first line.
SM_playTone_Ungated(S, frequency, duration, type, volume, p) ==
    LET g == getContext(S, p) IN
    IF g.threw
    THEN [S |-> g.S, threw |-> FALSE]
    ELSE [S |-> ScheduleVoice(g.S, frequency, duration, type, GainValue(volume), p),
          threw |-> FALSE]

\* SoundManager.playTone
SM_playTone(S, frequency, duration, type, volume, p) ==
    IF ~enabled
    THEN [S |-> S, threw |-> FALSE]
    ELSE LET g == getContext(S, p) IN                     \* inside the try block
         IF g.threw
         THEN [S |-> g.S, threw |-> FALSE]                \* caught and logged
         ELSE [S |-> ScheduleVoice(g.S, frequency, duration, type, GainValue(volume), p),
               threw |-> FALSE]

\* if (context.state === 'suspended') context.resume(): the platform lets the
\* context run once the page has had a user gesture.
ResumeIfSuspended(S) ==
    LET ctx == S.audioContext IN
    IF S.ctxState[ctx] = "suspended" /\ userActivated
    THEN [S EXCEPT !.ctxState[ctx] = "running"]
    ELSE S

\* BreakoutAudioEngine.playTone with the master volume left out of the gain.
BA_playTone_Unscaled(S, frequency, duration, type, volume, p) ==
    IF ~enabled
    THEN [S |-> S, threw |-> FALSE]
    ELSE LET g == getContext(S, p) IN
         IF g.threw
         THEN [S |-> g.S, threw |-> TRUE]
         ELSE LET S1 == ResumeIfSuspended(g.S)
              IN [S |-> ScheduleVoice(S1, frequency, duration, type, GainValue(volume), p),
                  threw |-> FALSE]

\* BreakoutAudioEngine.playTone returning early when the master volume is 0.
BA_playTone_SkipsWhenMuted(S, frequency, duration, type, volume, p) ==
    IF ~enabled \/ masterVolume = 0
    THEN [S |-> S, threw |-> FALSE]
    ELSE LET g == getContext(S, p) IN
         IF g.threw
         THEN [S |-> g.S, threw |-> TRUE]
         ELSE LET S1 == ResumeIfSuspended(g.S)
                  adjustedVolume == volume * masterVolume
              IN [S |-> ScheduleVoice(S1, frequency, duration, type, adjustedVolume, p),
                  threw |-> FALSE]

\* BreakoutAudioEngine.playTone
BA_playTone(S, frequency, duration, type, volume, p) ==
    IF ~enabled
    THEN [S |-> S, threw |-> FALSE]
    ELSE LET g == getContext(S, p) IN                     \* this.init(), outside the try block
         IF g.threw
         THEN [S |-> g.S, threw |-> TRUE]
         ELSE LET S1 == ResumeIfSuspended(g.S)
                  adjustedVolume == volume * masterVolume
              IN [S |-> ScheduleVoice(S1, frequency, duration, type, adjustedVolume, p),
                  threw |-> FALSE]

playTone(S, frequency, duration, type, volume, p) ==
    IF engine = "SoundManager"
    THEN SM_playTone(S, frequency, duration, type, volume, p)
    ELSE BA_playTone(S, frequency, duration, type, volume, p)

(***************************************************************************)
(* Phrases: the notes each phrase method lists.  delay is the setTimeout   *)
(* delay; direct marks the note the method plays with a synchronous        *)
(* this.playTone(...) call before it registers the timers.                 *)
(***************************************************************************)
Note(delay, direct, frequency, duration, type, volume) ==
    [delay |-> delay, direct |-> direct, frequency |-> frequency,
     duration |-> duration, type |-> type, volume |-> volume]

\* [..].forEach((freq, i) => setTimeout(() => this.playTone(freq, ...), i * step))
ForEachNotes(freqs, step, duration, type, volume) ==
    [i \in 1..Len(freqs) |-> Note((i - 1) * step, FALSE, freqs[i], duration, type, volume)]

playMoveNotes ==
    << Note(0, TRUE, 440, 100, "sine", 20), Note(50, FALSE, 523, 80, "sine", 15) >>
playCaptureNotes ==
    << Note(0, TRUE, 330, 150, "square", 25), Note(80, FALSE, 220, 100, "square", 20) >>
playCheckNotes ==
    << Note(0, TRUE, 880, 100, "sawtooth", 20), Note(150, FALSE, 880, 100, "sawtooth", 15) >>
playGameEndNotes(isVictory) ==
    IF isVictory
    THEN ForEachNotes(<<523, 659, 784, 1047>>, 100, 200, "sine", 25)
    ELSE ForEachNotes(<<392, 349, 330, 262>>, 150, 250, "sine", 20)
paddleHitNotes(variation) ==
    << Note(0, TRUE, 220 + variation, 80, "sine", 40),
       Note(50, FALSE, 330 + variation, 50, "sine", 30) >>
brickHitNotes(row) ==
    LET basePitch == 330 + (row * 50) IN
    << Note(0, TRUE, basePitch, 120, "square", 35),
       Note(60, FALSE, basePitch - 100, 80, "square", 25) >>
ballLostNotes == ForEachNotes(<<330, 277, 247, 196>>, 100, 200, "sawtooth", 30)
levelCompleteNotes == ForEachNotes(<<262, 330, 392, 523>>, 120, 250, "sine", 40)
gameOverNotes == ForEachNotes(<<523, 494, 392, 349, 330, 294, 262>>, 150, 300, "triangle", 35)

(***************************************************************************)
(* Bookkeeping shared by the actions.                                       *)
(***************************************************************************)
\* A timer whose delay has elapsed runs before the page handles further input.
TimerDue == \E i \in 1..Len(timers) : timers[i].due <= now

\* The page may make an API call / call a phrase method.
CanCall == nOps < MaxOps /\ ~TimerDue
CanCallPhrase == Len(phrases) < MaxPhrases /\ ~TimerDue


Commit(S) ==
    /\ audioContext' = S.audioContext
    /\ ctxSeq' = S.ctxSeq
    /\ ctxState' = S.ctxState
    /\ currentTime' = S.currentTime
    /\ voices' = S.voices

\* One playTone invocation, as seen from outside.
CallEntry(phrase, note, n, r) ==
    [phrase |-> phrase, note |-> note, at |-> now,
     frequency |-> n.frequency, duration |-> n.duration, type |-> n.type, volume |-> n.volume,
     enabled |-> enabled, masterVolume |-> masterVolume, fail |-> platformFault,
     ctxBefore |-> audioContext, ctx |-> r.S.audioContext,
     audioTime |-> IF r.S.audioContext = NULL THEN 0 ELSE r.S.currentTime[r.S.audioContext],
     state |-> IF r.S.audioContext = NULL THEN "none" ELSE r.S.ctxState[r.S.audioContext],
     voicesBefore |-> Len(voices), voicesAfter |-> Len(r.S.voices),
     threw |-> r.threw]

\* setTimeout(() => this.playTone(...), delay): the closure keeps its own arguments.
Timer(phrase, i, n) ==
    [due |-> now + n.delay, phrase |-> phrase, note |-> i,
     frequency |-> n.frequency, duration |-> n.duration, type |-> n.type, volume |-> n.volume]

TimersFor(phrase, notes, from) ==
    [k \in 1..(Len(notes) - from + 1) |-> Timer(phrase, from + k - 1, notes[from + k - 1])]

\* No MusicPlayer / no ThrottledSound has been constructed.
NoMusicPlayer ==
    /\ currentSource = NULL
    /\ currentGain = NULL
    /\ isPlaying = FALSE
    /\ currentBuffer = NULL
    /\ sources = << >>
    /\ gains = << >>
    /\ masterGain = NULL
    /\ musicLog = << >>

NoThrottledSound ==
    /\ minInterval = 0
    /\ lastPlayed = 0
    /\ throttleLog = << >>

\* No AudioFileManager / AudioUnlocker / AudioPreferences / AudioPool has been constructed.
NoAudioFileManager ==
    /\ buffers = << >>
    /\ loads = << >>
    /\ fileSources = << >>
    /\ fileMasterGain = NULL
    /\ fileLog = << >>

NoAudioUnlocker ==
    /\ unlocked = FALSE
    /\ listeners = << >>
    /\ unlocking = << >>
    /\ unlockHandlers = 0
    /\ throwing = {}
    /\ invocations = << >>

NoAudioPreferences ==
    /\ preferences = NULL
    /\ storage = NULL
    /\ prefLog = << >>

NoAudioPool ==
    /\ pool = << >>
    /\ maxSize = 0
    /\ poolNodes = << >>
    /\ poolLog = << >>

NoBreakoutGame ==
    /\ lives = 0
    /\ score = 0
    /\ gameActive = FALSE
    /\ bricksAlive = 0
    /\ looping = FALSE

\* No tone engine has been constructed.
NoToneEngine ==
    /\ enabled = TRUE
    /\ masterVolume = DefaultMasterVolume
    /\ voices = << >>
    /\ calls = << >>
    /\ phrases = << >>
    /\ closed = << >>
    /\ userActivated = FALSE
    /\ platformFault = "none"

(***************************************************************************)
(* Operations.                                                              *)
(***************************************************************************)
Init ==
    /\ engine \in Engines
    /\ audioContext = NULL
    /\ enabled = TRUE
    /\ masterVolume = DefaultMasterVolume
    /\ ctxSeq = 0
    /\ ctxState = << >>
    /\ currentTime = << >>
    /\ voices = << >>
    /\ timers = << >>
    /\ now = 0
    /\ calls = << >>
    /\ phrases = << >>
    /\ closed = << >>
    /\ lastOp = [op |-> "constructor", threw |-> FALSE]
    /\ userActivated = FALSE
    /\ platformFault \in PlatformFaults
    /\ nOps = 0
    /\ NoMusicPlayer
    /\ NoThrottledSound
    /\ NoAudioFileManager
    /\ NoAudioUnlocker
    /\ NoAudioPreferences
    /\ NoAudioPool
    /\ NoBreakoutGame

\* A direct playTone(frequency, duration, type, volume) call.
PlayTone ==
    /\ CanCall
    /\ \E f \in ToneFreqs, d \in ToneDurations, t \in ToneTypes, v \in ToneVolumes :
         LET n == Note(0, TRUE, f, d, t, v)
             r == playTone(Cur, f, d, t, v, platformFault)
         IN /\ Commit(r.S)
            /\ calls' = Append(calls, CallEntry(0, 0, n, r))
            /\ lastOp' = [op |-> "playTone", threw |-> r.threw]
    /\ nOps' = nOps + 1
    /\ UNCHANGED <<notToneVars, engine, enabled, masterVolume, timers, now, phrases, closed, userActivated, platformFault>>

\* A phrase method that registers its timers only when the engine is enabled.
Phrase_GatedAtStart(kind, notes) ==
    /\ CanCallPhrase
    /\ LET id == Len(phrases) + 1 IN
       /\ phrases' = Append(phrases, [kind |-> kind, at |-> now, notes |-> notes, enabled |-> enabled])
       /\ IF notes[1].direct
          THEN   LET n == notes[1]
                     r == playTone(Cur, n.frequency, n.duration, n.type, n.volume, platformFault)
                 IN /\ Commit(r.S)
                    /\ calls' = Append(calls, CallEntry(id, 1, n, r))
                    /\ lastOp' = [op |-> kind, threw |-> r.threw]
                    /\ timers' = IF r.threw \/ ~enabled THEN timers
                                 ELSE timers \o TimersFor(id, notes, 2)
          ELSE /\ timers' = IF enabled THEN timers \o TimersFor(id, notes, 1) ELSE timers
               /\ lastOp' = [op |-> kind, threw |-> FALSE]
               /\ UNCHANGED <<audioContext, ctxSeq, ctxState, currentTime, voices, calls>>
    /\ UNCHANGED <<notToneVars, engine, enabled, masterVolume, now, closed, userActivated, platformFault, nOps>>

\* A phrase method: the direct note, if it has one, then one setTimeout per
\* remaining note.  An exception thrown by the direct playTone call leaves the
\* method before its setTimeout line.
Phrase(kind, notes) ==
    /\ CanCallPhrase
    /\ LET id == Len(phrases) + 1 IN
       /\ phrases' = Append(phrases, [kind |-> kind, at |-> now, notes |-> notes, enabled |-> enabled])
       /\ IF notes[1].direct
          THEN   LET n == notes[1]
                     r == playTone(Cur, n.frequency, n.duration, n.type, n.volume, platformFault)
                 IN /\ Commit(r.S)
                    /\ calls' = Append(calls, CallEntry(id, 1, n, r))
                    /\ lastOp' = [op |-> kind, threw |-> r.threw]
                    /\ timers' = IF r.threw THEN timers ELSE timers \o TimersFor(id, notes, 2)
          ELSE /\ timers' = timers \o TimersFor(id, notes, 1)
               /\ lastOp' = [op |-> kind, threw |-> FALSE]
               /\ UNCHANGED <<audioContext, ctxSeq, ctxState, currentTime, voices, calls>>
    /\ UNCHANGED <<notToneVars, engine, enabled, masterVolume, now, closed, userActivated, platformFault, nOps>>

playMove == engine = "SoundManager" /\ Phrase("playMove", playMoveNotes)
playCapture == engine = "SoundManager" /\ Phrase("playCapture", playCaptureNotes)
playCheck == engine = "SoundManager" /\ Phrase("playCheck", playCheckNotes)
playGameEnd ==
    /\ engine = "SoundManager"
    /\ \E isVictory \in BOOLEAN : Phrase("playGameEnd", playGameEndNotes(isVictory))
paddleHit ==
    /\ engine = "BreakoutAudioEngine"
    /\ \E variation \in Variations : Phrase("paddleHit", paddleHitNotes(variation))
brickHit ==
    /\ engine = "BreakoutAudioEngine"
    /\ \E row \in BrickRows : Phrase("brickHit", brickHitNotes(row))
ballLost == engine = "BreakoutAudioEngine" /\ Phrase("ballLost", ballLostNotes)
levelComplete == engine = "BreakoutAudioEngine" /\ Phrase("levelComplete", levelCompleteNotes)
gameOver == engine = "BreakoutAudioEngine" /\ Phrase("gameOver", gameOverNotes)

\* BreakoutAudioEngine.wallBounce
wallBounce ==
    /\ engine = "BreakoutAudioEngine"
    /\ CanCall
    /\   LET n == Note(0, TRUE, 440, 60, "triangle", 25)
             r == playTone(Cur, n.frequency, n.duration, n.type, n.volume, platformFault)
         IN /\ Commit(r.S)
            /\ calls' = Append(calls, CallEntry(0, 0, n, r))
            /\ lastOp' = [op |-> "wallBounce", threw |-> r.threw]
    /\ nOps' = nOps + 1
    /\ UNCHANGED <<notToneVars, engine, enabled, masterVolume, timers, now, phrases, closed, userActivated, platformFault>>

\* The timer the event loop runs next: the earliest due, first registered.
NextTimer ==
    CHOOSE i \in 1..Len(timers) :
        \A j \in 1..Len(timers) :
            timers[i].due < timers[j].due \/ (timers[i].due = timers[j].due /\ i <= j)

RemoveAt(s, i) == [k \in 1..(Len(s) - 1) |-> IF k < i THEN s[k] ELSE s[k + 1]]

\* A setTimeout callback of a phrase runs: () => this.playTone(...).
TimerFire ==
    /\ timers # << >>
    /\ LET i == NextTimer
           tm == timers[i]
       IN /\ tm.due <= now
          /\   LET r == playTone(Cur, tm.frequency, tm.duration, tm.type, tm.volume, platformFault)
               IN /\ Commit(r.S)
                  /\ calls' = Append(calls, CallEntry(tm.phrase, tm.note, tm, r))
                  /\ lastOp' = [op |-> "timer", threw |-> r.threw]
          /\ timers' = RemoveAt(timers, i)
    /\ UNCHANGED <<notToneVars, engine, enabled, masterVolume, now, phrases, closed, userActivated, platformFault, nOps>>

\* Time passes, and the clock of every context advances, running or not.
Tick_EveryClock ==
    /\ now < MaxTime
    /\ LET target == IF timers = << >> THEN now + TickStep
                     ELSE Min(now + TickStep, timers[NextTimer].due)
           d == Min(target, MaxTime) - now
       IN /\ d > 0
          /\ now' = now + d
          /\ currentTime' = [c \in DOMAIN currentTime |-> currentTime[c] + d]
    /\ UNCHANGED <<notToneVars, engine, audioContext, enabled, masterVolume, ctxSeq, ctxState,
                   voices, timers, calls, phrases, closed, lastOp, userActivated, platformFault, nOps>>

\* Time passes: up to the next due timer, which then runs on time.
Tick ==
    /\ now < MaxTime
    /\ LET target == IF timers = << >> THEN now + TickStep
                     ELSE Min(now + TickStep, timers[NextTimer].due)
           d == Min(target, MaxTime) - now
       IN /\ d > 0
          /\ now' = now + d
          /\ currentTime' = [c \in DOMAIN currentTime |->
                               IF ctxState[c] = "running" THEN currentTime[c] + d
                               ELSE currentTime[c]]
    /\ UNCHANGED <<notToneVars, engine, audioContext, enabled, masterVolume, ctxSeq, ctxState,
                   voices, timers, calls, phrases, closed, lastOp, userActivated, platformFault, nOps>>

\* A setEnabled that also cancels the pending phrase timers when it disables.
SM_setEnabled_Cancelling ==
    /\ engine = "SoundManager"
    /\ CanCall
    /\ \E e \in BOOLEAN :
         /\ enabled' = e
         /\ timers' = IF e THEN timers ELSE << >>
    /\ lastOp' = [op |-> "setEnabled", threw |-> FALSE]
    /\ nOps' = nOps + 1
    /\ UNCHANGED <<notToneVars, engine, audioContext, masterVolume, ctxSeq, ctxState, currentTime,
                   voices, now, calls, phrases, closed, userActivated, platformFault>>

\* SoundManager.setEnabled
SM_setEnabled ==
    /\ engine = "SoundManager"
    /\ CanCall
    /\ \E e \in BOOLEAN : enabled' = e
    /\ lastOp' = [op |-> "setEnabled", threw |-> FALSE]
    /\ nOps' = nOps + 1
    /\ UNCHANGED <<notToneVars, engine, audioContext, masterVolume, ctxSeq, ctxState, currentTime,
                   voices, timers, now, calls, phrases, closed, userActivated, platformFault>>

\* BreakoutAudioEngine.setEnabled
BA_setEnabled ==
    /\ engine = "BreakoutAudioEngine"
    /\ CanCall
    /\ \E e \in BOOLEAN :
         /\ enabled' = e
         /\ IF e /\ audioContext # NULL
            THEN ctxState' = ResumeIfSuspended(Cur).ctxState
            ELSE ctxState' = ctxState
    /\ lastOp' = [op |-> "setEnabled", threw |-> FALSE]
    /\ nOps' = nOps + 1
    /\ UNCHANGED <<notToneVars, engine, audioContext, masterVolume, ctxSeq, currentTime,
                   voices, timers, now, calls, phrases, closed, userActivated, platformFault>>

\* A setVolume that also rescales the start gain of the voices already created.
setVolume_Retroactive ==
    /\ engine = "BreakoutAudioEngine"
    /\ CanCall
    /\ \E volume \in SetVolumeArgs :
         /\ masterVolume' = Max(0, Min(100, volume))
         /\ voices' = [j \in DOMAIN voices |->
                          [voices[j] EXCEPT !.gain[1].value =
                               (voices[j].gain[1].value * masterVolume') \div DefaultMasterVolume]]
    /\ lastOp' = [op |-> "setVolume", threw |-> FALSE]
    /\ nOps' = nOps + 1
    /\ UNCHANGED <<notToneVars, engine, audioContext, enabled, ctxSeq, ctxState, currentTime,
                   timers, now, calls, phrases, closed, userActivated, platformFault>>

\* BreakoutAudioEngine.setVolume
setVolume ==
    /\ engine = "BreakoutAudioEngine"
    /\ CanCall
    /\ \E volume \in SetVolumeArgs : masterVolume' = Max(0, Min(100, volume))
    /\ lastOp' = [op |-> "setVolume", threw |-> FALSE]
    /\ nOps' = nOps + 1
    /\ UNCHANGED <<notToneVars, engine, audioContext, enabled, ctxSeq, ctxState, currentTime,
                   voices, timers, now, calls, phrases, closed, userActivated, platformFault>>

\* A call of SoundManager.getContext() or BreakoutAudioEngine.init() by the page.
GetContext ==
    /\ CanCall
    /\ LET g == getContext(Cur, platformFault)
       IN /\ Commit(g.S)
          /\ lastOp' = [op |-> "getContext", threw |-> g.threw]
    /\ nOps' = nOps + 1
    /\ UNCHANGED <<notToneVars, engine, enabled, masterVolume, timers, now, calls, phrases, closed, userActivated, platformFault>>

\* A dispose that closes the context but keeps the reference to it.
dispose_KeepsReference ==
    /\ engine = "SoundManager"
    /\ CanCall
    /\ IF audioContext # NULL
       THEN /\ ctxState' = [ctxState EXCEPT ![audioContext] = "closed"]
            /\ closed' = Append(closed, [ctx |-> audioContext, voices |-> Len(voices), calls |-> Len(calls),
                                         phrases |-> Len(phrases)])
       ELSE UNCHANGED <<ctxState, closed>>
    /\ lastOp' = [op |-> "dispose", threw |-> FALSE]
    /\ nOps' = nOps + 1
    /\ UNCHANGED <<notToneVars, engine, audioContext, enabled, masterVolume, ctxSeq, currentTime,
                   voices, timers, now, calls, phrases, userActivated, platformFault>>

\* SoundManager.dispose
dispose ==
    /\ engine = "SoundManager"
    /\ CanCall
    /\ IF audioContext # NULL
       THEN /\ ctxState' = [ctxState EXCEPT ![audioContext] = "closed"]
            /\ closed' = Append(closed, [ctx |-> audioContext, voices |-> Len(voices), calls |-> Len(calls),
                                         phrases |-> Len(phrases)])
            /\ audioContext' = NULL
       ELSE UNCHANGED <<ctxState, closed, audioContext>>
    /\ lastOp' = [op |-> "dispose", threw |-> FALSE]
    /\ nOps' = nOps + 1
    /\ UNCHANGED <<notToneVars, engine, enabled, masterVolume, ctxSeq, currentTime,
                   voices, timers, now, calls, phrases, userActivated, platformFault>>

\* The first user gesture on the page (sticky activation); an input event
\* like the ones that lead to API calls.
UserGesture ==
    /\ CanCall
    /\ ~userActivated
    /\ userActivated' = TRUE
    /\ lastOp' = [op |-> "userGesture", threw |-> FALSE]
    /\ nOps' = nOps + 1
    /\ UNCHANGED <<notToneVars, engine, audioContext, enabled, masterVolume, ctxSeq, ctxState, currentTime,
                   voices, timers, now, calls, phrases, closed, platformFault>>

\* The platform starts or stops refusing an allocation.
PlatformChange ==
    /\ CanCall
    /\ \E f \in PlatformFaults \ {platformFault} : platformFault' = f
    /\ lastOp' = [op |-> "platformChange", threw |-> FALSE]
    /\ nOps' = nOps + 1
    /\ UNCHANGED <<notToneVars, engine, audioContext, enabled, masterVolume, ctxSeq, ctxState, currentTime,
                   voices, timers, now, calls, phrases, closed, userActivated>>

Next ==
    \/ UserGesture
    \/ PlatformChange
    \/ PlayTone
    \/ playMove
    \/ playCapture
    \/ playCheck
    \/ playGameEnd
    \/ paddleHit
    \/ wallBounce
    \/ brickHit
    \/ ballLost
    \/ levelComplete
    \/ gameOver
    \/ TimerFire
    \/ Tick
    \/ SM_setEnabled
    \/ BA_setEnabled
    \/ setVolume
    \/ GetContext
    \/ dispose

Spec == Init /\ [][Next]_vars

(***************************************************************************)
(* Vocabulary of the properties.                                            *)
(***************************************************************************)
Calls == DOMAIN calls

\* The platform refused an allocation this playTone call reached.
PlatformRefused(c) ==
    \/ c.fail = "ctx" /\ c.ctxBefore = NULL
    \/ c.fail \in {"osc", "gain"}

\* What a playTone call left behind.
ScheduledNone(c) == c.voicesAfter = c.voicesBefore
ScheduledOne(c) == c.voicesAfter = c.voicesBefore + 1
VoiceOf(c) == voices[c.voicesAfter]

\* The voice has been scheduled and its stop time has not yet come.
InFlight(v) == ctxState[v.ctx] # "closed" /\ currentTime[v.ctx] < v.stop[1]

(***************************************************************************)
(* C1.  While the engine is disabled a playTone call, direct or from a     *)
(* phrase timer, schedules no voice, creates no audio context and throws   *)
(* nothing; once the engine is enabled again a playTone call (on a         *)
(* platform that refuses nothing) schedules one voice.                      *)
(***************************************************************************)
C1_DisabledPlaysNothing ==
    \A i \in Calls :
        LET c == calls[i] IN
        /\ ~c.enabled => ScheduledNone(c) /\ c.ctx = c.ctxBefore /\ ~c.threw
        /\ (c.enabled /\ ~PlatformRefused(c)) => ScheduledOne(c) /\ ~c.threw

\* Two calls made while disabled were dropped and a call after setEnabled(true) played.
C1_Witness ==
    \E i, j, k \in Calls :
        /\ i < j /\ j < k
        /\ ~calls[i].enabled /\ ~calls[j].enabled /\ calls[k].enabled
        /\ ScheduledNone(calls[i]) /\ ScheduledNone(calls[j])
        /\ ScheduledOne(calls[k])

(***************************************************************************)
(* C2.  playTone never throws to its caller: a failing AudioContext        *)
(* constructor, createOscillator or createGain is caught inside it.        *)
(***************************************************************************)
C2_PlayToneNeverThrows ==
    \A i \in Calls : ~calls[i].threw

(***************************************************************************)
(* C3.  Context creation is idempotent: as long as dispose has not run,    *)
(* getContext/init and playTone construct the AudioContext at most once     *)
(* and every call and every voice uses that one context; at any time at    *)
(* most one context of the engine is open.                                  *)
(***************************************************************************)
OpenContexts == {c \in 1..ctxSeq : ctxState[c] # "closed"}

C3_ContextCreatedOnce ==
    /\ Cardinality(OpenContexts) <= 1
    /\ ctxSeq <= Len(closed) + 1
    /\ closed = << >> =>
          /\ audioContext \in {NULL, 1}
          /\ \A i \in Calls : calls[i].ctx \in {NULL, 1}
          /\ \A j \in DOMAIN voices : voices[j].ctx = audioContext

\* Three playTone calls in a row, no dispose, all on the one context.
C3_Witness ==
    /\ closed = << >>
    /\ ctxSeq = 1
    /\ Len(voices) >= 3

(***************************************************************************)
(* C4.  A playTone call made while the engine is enabled, on a platform    *)
(* that refuses nothing, with pitch > 0 and duration > 0, schedules        *)
(* exactly one oscillator start, at the audio-clock time t of the call,    *)
(* and exactly one stop, at t + duration.                                   *)
(***************************************************************************)
C4_OneStartOneStop ==
    \A i \in Calls :
        LET c == calls[i] IN
        (c.enabled /\ ~PlatformRefused(c) /\ c.frequency > 0 /\ c.duration > 0) =>
            /\ ScheduledOne(c)
            /\ VoiceOf(c).start = << c.audioTime >>
            /\ VoiceOf(c).stop = << c.audioTime + c.duration >>

\* A tone scheduled while the audio clock was past zero.
C4_Witness ==
    \E i \in Calls :
        /\ ScheduledOne(calls[i])
        /\ calls[i].audioTime > 0
        /\ VoiceOf(calls[i]).stop[1] > VoiceOf(calls[i]).start[1]

(***************************************************************************)
(* C5 as claimed.  The gain of every voice at its start time equals the    *)
(* volume requested of playTone, and the gain at start + duration is the   *)
(* floor 0.01.                                                              *)
(***************************************************************************)
C5_StartGainIsVolume ==
    \A i \in Calls :
        LET c == calls[i] IN
        ScheduledOne(c) =>
            /\ VoiceOf(c).gain[1] =
                  [op |-> "setValueAtTime", value |-> GainValue(c.volume), time |-> c.audioTime]
            /\ VoiceOf(c).gain[2].value = RampFloor
            /\ VoiceOf(c).gain[2].time = c.audioTime + c.duration

(***************************************************************************)
(* C5 as amended.  The gain of a voice at its start time equals the        *)
(* requested volume in SoundManager and the requested volume multiplied    *)
(* by the master volume of that moment in BreakoutAudioEngine; in both      *)
(* the gain at start + duration is the floor 0.01, which is above zero.     *)
(***************************************************************************)
C5_StartGainIsScaledVolume ==
    \A i \in Calls :
        LET c == calls[i]
            expected == IF engine = "SoundManager" THEN GainValue(c.volume)
                        ELSE c.volume * c.masterVolume
        IN ScheduledOne(c) =>
            /\ Len(VoiceOf(c).gain) = 2
            /\ VoiceOf(c).gain[1] =
                  [op |-> "setValueAtTime", value |-> expected, time |-> c.audioTime]
            /\ VoiceOf(c).gain[2] =
                  [op |-> "exponentialRampToValueAtTime", value |-> RampFloor,
                   time |-> c.audioTime + c.duration]
            /\ VoiceOf(c).gain[2].value > 0

\* A Breakout voice played after setVolume(0.5): its start gain is half the volume.
C5_Witness ==
    \E i \in Calls :
        /\ engine = "BreakoutAudioEngine"
        /\ ScheduledOne(calls[i])
        /\ calls[i].masterVolume = 50
        /\ calls[i].volume > 0
        /\ VoiceOf(calls[i]).gain[1].value = calls[i].volume * 50

(***************************************************************************)
(* C6.  The gain envelope of every voice is non-increasing from its start  *)
(* to start + duration: the value set at the start is not below the floor  *)
(* the exponential ramp ends at.                                            *)
(***************************************************************************)
C6_EnvelopeNonIncreasing ==
    \A j \in DOMAIN voices :
        voices[j].gain[1].value >= voices[j].gain[2].value

(***************************************************************************)
(* Phrases and their notes in the histories.                                *)
(***************************************************************************)
Phrases == DOMAIN phrases
NotesOf(k) == DOMAIN phrases[k].notes

\* The playTone invocations and the pending timers of note i of phrase k.
InvocationsOf(k, i) == {j \in Calls : calls[j].phrase = k /\ calls[j].note = i}
PendingOf(k, i) == {t \in DOMAIN timers : timers[t].phrase = k /\ timers[t].note = i}

\* Invocation j passed playTone the parameters of note n, at the note's delay
\* after the phrase call.
PlaysNote(j, k, n) ==
    /\ calls[j].frequency = n.frequency
    /\ calls[j].duration = n.duration
    /\ calls[j].type = n.type
    /\ calls[j].volume = n.volume
    /\ calls[j].at = phrases[k].at + n.delay

(***************************************************************************)
(* C7.  A phrase method that lists N notes leads to exactly N playTone     *)
(* invocations: each note is either still waiting on its one timer or has   *)
(* been invoked exactly once, with its own parameters, at its own delay     *)
(* after the phrase call; once no timer of the phrase is left, there are N  *)
(* invocations.                                                             *)
(***************************************************************************)
C7_EveryNoteInvokedOnce ==
    \A k \in Phrases :
        /\ \A i \in NotesOf(k) :
              /\ Cardinality(InvocationsOf(k, i)) + Cardinality(PendingOf(k, i)) = 1
              /\ \A j \in InvocationsOf(k, i) : PlaysNote(j, k, phrases[k].notes[i])
              /\ \A t \in PendingOf(k, i) : timers[t].due = phrases[k].at + phrases[k].notes[i].delay
        /\ (\A i \in NotesOf(k) : PendingOf(k, i) = {}) =>
              Cardinality({j \in Calls : calls[j].phrase = k}) = Len(phrases[k].notes)

(***************************************************************************)
(* C8.  Gating is per note.  For a phrase started while the engine was     *)
(* disabled every note still gets its one playTone invocation; an          *)
(* invocation made while the engine is disabled schedules no voice, and    *)
(* the note is not invoked a second time; an invocation made after         *)
(* setEnabled(true), on a platform that refuses nothing, schedules a voice. *)
(***************************************************************************)
C8_GatingIsPerNote ==
    \A k \in Phrases :
        ~phrases[k].enabled =>
            \A i \in NotesOf(k) :
                /\ Cardinality(InvocationsOf(k, i)) + Cardinality(PendingOf(k, i)) = 1
                /\ \A j \in InvocationsOf(k, i) :
                      /\ PlaysNote(j, k, phrases[k].notes[i])
                      /\ ~calls[j].enabled => ScheduledNone(calls[j])
                      /\ (calls[j].enabled /\ ~PlatformRefused(calls[j])) => ScheduledOne(calls[j])
                /\ Len(voices) =
                      Cardinality({j \in Calls : calls[j].enabled /\ ~PlatformRefused(calls[j])})

\* A phrase started while disabled: one note skipped, a later one played, the
\* skipped one still silent after the phrase has ended.
C8_Witness ==
    \E k \in Phrases :
        /\ ~phrases[k].enabled
        /\ \A i \in NotesOf(k) : PendingOf(k, i) = {}
        /\ \E i1, i2 \in NotesOf(k) :
              /\ i1 < i2
              /\ \E j \in InvocationsOf(k, i1) : ~calls[j].enabled /\ ScheduledNone(calls[j])
              /\ \E j \in InvocationsOf(k, i2) : calls[j].enabled /\ ScheduledOne(calls[j])
        /\ Len(voices) < Len(phrases[k].notes)

(***************************************************************************)
(* C9.  setEnabled(false) changes the enabled flag and nothing else: the   *)
(* voices already scheduled, the pending phrase timers, the context and    *)
(* the master volume are as before.                                         *)
(***************************************************************************)
SetEnabledFalseStep ==
    /\ nOps' = nOps + 1
    /\ lastOp'.op = "setEnabled"
    /\ ~enabled'

C9_SetEnabledFalseOnlyGates ==
    [][SetEnabledFalseStep =>
          UNCHANGED <<voices, timers, audioContext, ctxSeq, ctxState, currentTime,
                      masterVolume, calls, phrases, closed, now>>]_vars

\* setEnabled(false) has just run while a voice was in flight and a timer pending.
C9_Witness ==
    /\ lastOp.op = "setEnabled"
    /\ ~enabled
    /\ timers # << >>
    /\ \E j \in DOMAIN voices : InFlight(voices[j])

(***************************************************************************)
(* C10.  SoundManager's use-after-dispose policy is auto-recreate,         *)
(* uniformly: a context that dispose() closed is never used again, the     *)
(* engine never keeps a reference to it, no call after dispose() throws,   *)
(* and every playTone call after it that gets to play runs on a context    *)
(* constructed after the closed one.                                        *)
(***************************************************************************)
C10_DisposedContextNeverReused ==
    /\ audioContext # NULL => ctxState[audioContext] # "closed"
    /\ \A d \in DOMAIN closed :
          /\ \A j \in DOMAIN voices : j > closed[d].voices => voices[j].ctx > closed[d].ctx
          /\ \A i \in Calls :
                i > closed[d].calls =>
                    /\ ~calls[i].threw
                    /\ calls[i].ctx # closed[d].ctx
                    /\ (calls[i].enabled /\ ~PlatformRefused(calls[i])) =>
                          /\ ScheduledOne(calls[i])
                          /\ calls[i].ctx > closed[d].ctx
                          /\ VoiceOf(calls[i]).ctx = calls[i].ctx

\* A voice before dispose() on one context, a voice after it on another.
C10_Witness ==
    \E d \in DOMAIN closed, j1, j2 \in DOMAIN voices :
        /\ j1 <= closed[d].voices /\ voices[j1].ctx = closed[d].ctx
        /\ j2 > closed[d].voices /\ voices[j2].ctx = audioContext
        /\ ctxState[closed[d].ctx] = "closed"

(***************************************************************************)
(* C11 as claimed.  Every voice created by playTone reaches the output     *)
(* through the shared master volume stage of its engine, so that the       *)
(* level of a voice in flight follows the master volume of the moment.     *)
(***************************************************************************)
C11_VoicesShareMasterStage ==
    \A i \in Calls :
        LET c == calls[i] IN
        ScheduledOne(c) =>
            /\ VoiceOf(c).out = "masterGain"
            /\ (engine = "BreakoutAudioEngine" /\ InFlight(VoiceOf(c))) =>
                  VoiceOf(c).gain[1].value = c.volume * masterVolume

(***************************************************************************)
(* C11 as amended.  Every voice created by playTone reaches the output     *)
(* through its own gain node, connected directly to the destination of its *)
(* context: the tone engines have no shared master volume stage, and a     *)
(* master volume or mute change leaves every voice already created as it    *)
(* was.                                                                     *)
(***************************************************************************)
C11_VoicesReachDestinationDirectly ==
    /\ [](\A j \in DOMAIN voices : voices[j].out = "destination")
    /\ [][(masterVolume' # masterVolume \/ enabled' # enabled) => voices' = voices]_vars

\* Two voices in flight under a master volume other than the one either was created with.
C11_Witness ==
    \E i1, i2 \in Calls :
        /\ i1 < i2
        /\ ScheduledOne(calls[i1]) /\ ScheduledOne(calls[i2])
        /\ InFlight(VoiceOf(calls[i1])) /\ InFlight(VoiceOf(calls[i2]))
        /\ VoiceOf(calls[i1]).ctx = VoiceOf(calls[i2]).ctx
        /\ calls[i1].masterVolume # masterVolume
        /\ calls[i2].masterVolume # masterVolume

(***************************************************************************)
(* C12.  BreakoutAudioEngine.setVolume changes the master volume and       *)
(* nothing else: the gain schedule of every voice already created, the     *)
(* pending timers, the context and the enabled flag are as before.  The    *)
(* multiplier is read once, by playTone: the start gain of a voice is the  *)
(* requested volume times the master volume of the moment of its call,     *)
(* whatever the master volume has become since.                             *)
(***************************************************************************)
SetVolumeStep ==
    /\ nOps' = nOps + 1
    /\ lastOp'.op = "setVolume"

C12_SetVolumeOnlyChangesMultiplier ==
    /\ [][SetVolumeStep =>
             UNCHANGED <<voices, timers, audioContext, ctxSeq, ctxState, currentTime,
                         enabled, calls, phrases, closed, now>>]_vars
    /\ [](engine = "BreakoutAudioEngine" =>
             \A i \in Calls :
                 ScheduledOne(calls[i]) =>
                     /\ VoiceOf(calls[i]).gain[1].value = calls[i].volume * calls[i].masterVolume
                     /\ VoiceOf(calls[i]).gain[2].value = RampFloor)

\* setVolume has just changed the master volume while a voice made with the
\* former one was in flight.
C12_Witness ==
    /\ lastOp.op = "setVolume"
    /\ \E i \in Calls :
          /\ ScheduledOne(calls[i])
          /\ InFlight(VoiceOf(calls[i]))
          /\ calls[i].volume > 0
          /\ calls[i].masterVolume # masterVolume

(***************************************************************************)
(* C13.  With the master volume at 0 and the engine enabled, a playTone    *)
(* call of BreakoutAudioEngine (on a platform that refuses nothing) still  *)
(* schedules one voice with one start and one stop event; the start gain   *)
(* of that voice is 0, the product of the requested volume and the         *)
(* multiplier.                                                              *)
(***************************************************************************)
C13_ZeroMasterVolumeStillSchedules ==
    \A i \in Calls :
        LET c == calls[i] IN
        (/\ engine = "BreakoutAudioEngine"
         /\ c.masterVolume = 0
         /\ c.enabled
         /\ ~PlatformRefused(c)) =>
            /\ ScheduledOne(c)
            /\ ~c.threw
            /\ Len(VoiceOf(c).start) = 1
            /\ Len(VoiceOf(c).stop) = 1
            /\ VoiceOf(c).gain[1].value = 0

\* A tone of non-zero volume was requested while the master volume was 0.
C13_Witness ==
    \E i \in Calls :
        /\ engine = "BreakoutAudioEngine"
        /\ calls[i].masterVolume = 0
        /\ calls[i].enabled
        /\ calls[i].volume > 0
        /\ ScheduledOne(calls[i])
        /\ VoiceOf(calls[i]).gain[1].value = 0

(***************************************************************************)
(* The state of a voice.  "created" lasts from createOscillator() to the    *)
(* start() and stop() calls inside one playTone call; from then on the      *)
(* state is a function of the audio clock of the voice's context.           *)
(***************************************************************************)
VoiceStateAt(v, t) ==
    IF t < v.start[1] THEN "scheduled"
    ELSE IF t < v.stop[1] THEN "playing"
    ELSE "stopped"

VoiceState(v) == VoiceStateAt(v, currentTime[v.ctx])

Rank(st) == CASE st = "created" -> 0 [] st = "scheduled" -> 1 [] st = "playing" -> 2 [] st = "stopped" -> 3

(***************************************************************************)
(* C14 as claimed.  Every voice that was scheduled reaches stopped when    *)
(* its scheduled stop time elapses, without any engine call: once the      *)
(* duration of the tone has passed since the playTone call, the voice is   *)
(* stopped.                                                                 *)
(***************************************************************************)
C14_StoppedOnceDurationElapsed ==
    \A i \in Calls :
        LET c == calls[i] IN
        (ScheduledOne(c) /\ now >= c.at + c.duration) => VoiceState(VoiceOf(c)) = "stopped"

(***************************************************************************)
(* C14 as amended.  The state of a voice never moves backward and stopped  *)
(* is terminal; the state follows the audio clock of the voice's context   *)
(* only.  On a context that has been running since the playTone call the   *)
(* voice is stopped exactly from the moment its duration has passed, with  *)
(* no engine call; on a context that is suspended or closed the clock      *)
(* stands still and the voice keeps the state it has.                       *)
(***************************************************************************)
C14_VoiceStateFollowsAudioClock ==
    /\ [][\A j \in DOMAIN voices :
             /\ voices'[j] = voices[j]
             /\ Rank(VoiceStateAt(voices[j], currentTime'[voices[j].ctx]))
                    >= Rank(VoiceState(voices[j]))
             /\ ctxState[voices[j].ctx] # "running" =>
                    VoiceStateAt(voices[j], currentTime'[voices[j].ctx]) = VoiceState(voices[j])]_vars
    /\ [](\A i \in Calls :
             LET c == calls[i] IN
             (ScheduledOne(c) /\ c.state = "running" /\ ctxState[c.ctx] = "running") =>
                 /\ VoiceOf(c).ctx = c.ctx
                 /\ VoiceState(VoiceOf(c)) = "stopped" <=> now >= c.at + c.duration)

\* One voice has stopped on a running context while another, on a context that
\* does not run, is past its duration and still playing.
C14_Witness ==
    \E i1, i2 \in Calls :
        /\ ScheduledOne(calls[i1]) /\ ScheduledOne(calls[i2])
        /\ ctxState[calls[i1].ctx] = "running"
        /\ VoiceState(VoiceOf(calls[i1])) = "stopped"
        /\ ctxState[calls[i2].ctx] # "running"
        /\ now >= calls[i2].at + calls[i2].duration
        /\ VoiceState(VoiceOf(calls[i2])) = "playing"

(***************************************************************************)
(* C15.  In playMove the second tone is scheduled 50 ms after the first,   *)
(* while the first voice, of 100 ms, has not reached its stop time: when   *)
(* both playTone calls schedule a voice, the two voices are two            *)
(* oscillator/gain pairs, the second starts at the audio time of its own   *)
(* call and not at the stop of the first, and each voice has the schedule  *)
(* its own call gave it.  (When both are on the same context the audio     *)
(* time of the second call is before the first voice's stop time.)          *)
(***************************************************************************)
C15_PlayMoveVoicesOverlap ==
    \A k \in Phrases :
        phrases[k].kind = "playMove" =>
            \A i1 \in InvocationsOf(k, 1), i2 \in InvocationsOf(k, 2) :
                LET c1 == calls[i1]
                    c2 == calls[i2]
                IN (ScheduledOne(c1) /\ ScheduledOne(c2)) =>
                      /\ c1.voicesAfter # c2.voicesAfter
                      /\ c2.at = c1.at + 50
                      /\ c2.at < c1.at + c1.duration
                      /\ VoiceOf(c1) = Voice(c1.ctx, c1.audioTime, 440, 100, "sine", GainValue(20))
                      /\ VoiceOf(c2) = Voice(c2.ctx, c2.audioTime, 523, 80, "sine", GainValue(15))
                      /\ c1.ctx = c2.ctx =>
                            /\ c2.audioTime < VoiceOf(c1).stop[1]
                            /\ VoiceStateAt(VoiceOf(c1), c2.audioTime) = "playing"

\* Both tones of a playMove are scheduled on a running context, and the second
\* has just been scheduled half way through the first.
C15_Witness ==
    \E k \in Phrases, i1, i2 \in Calls :
        /\ phrases[k].kind = "playMove"
        /\ i1 \in InvocationsOf(k, 1) /\ i2 \in InvocationsOf(k, 2)
        /\ ScheduledOne(calls[i1]) /\ ScheduledOne(calls[i2])
        /\ calls[i1].ctx = calls[i2].ctx
        /\ ctxState[calls[i1].ctx] = "running"
        /\ calls[i2].audioTime = calls[i1].audioTime + 50
        /\ VoiceState(VoiceOf(calls[i1])) = "playing"
        /\ VoiceState(VoiceOf(calls[i2])) = "playing"

(***************************************************************************)
(* C30.  After SoundManager.dispose() the engine holds no audio context    *)
(* until the caller makes a new call: a phrase timer that was pending when *)
(* dispose() ran and that finds the engine still without a context creates *)
(* no context and schedules no voice.                                       *)
(***************************************************************************)
C30_PendingTimersLeaveDisposedEngineAlone ==
    \A d \in DOMAIN closed :
        \A i \in Calls :
            (/\ i > closed[d].calls
             /\ calls[i].phrase \in 1..closed[d].phrases
             /\ calls[i].ctxBefore = NULL) =>
                /\ calls[i].ctx = NULL
                /\ ScheduledNone(calls[i])

(***************************************************************************)
(* MusicPlayer (01-basic-sound-manager/SoundManager.js, lines 137-342).    *)
(* One behaviour of MusicSpec is one MusicPlayer on one audio context,     *)
(* context 1, which runs when the player is constructed.  Times are ms     *)
(* (fadeTime 0.1 s is 100), gain values ten-thousandths (0.5 is 5000).      *)
(***************************************************************************)
Buffers == {"a", "b"}
MusicVolumes == {50}
FadeTimes == {100}
MusicSetVolumeArgs == {20}
MasterVolumeArgs == {-50, 150}

\* duck(duckAmount = 0.3, duckTime = 0.5)
DuckAmount == 30
DuckTime == 500
\* the ramp lengths inside duck, 0.05 s and 0.2 s, and the default rampTime 0.1 s
DuckDown == 50
DuckUp == 200
RampTime == 100
\* stop: setTimeout(..., fadeTime * 1000 + 100)
CleanupSlack == 100
\* this.masterGain.gain.setValueAtTime(0.5, ...)
MasterGainDefault == 5000
\* AudioParam default of a GainNode's gain
GainDefault == 10000

\* The audio clock of the player's context.
AudioNow == currentTime[audioContext]

\* An automation event of an AudioParam; at is the audio time of the call that
\* scheduled it.
SetValue(value, time) ==
    [op |-> "setValueAtTime", value |-> value, time |-> time, at |-> AudioNow]
LinearRamp(value, time) ==
    [op |-> "linearRampToValueAtTime", value |-> value, time |-> time, at |-> AudioNow]

\* The platform keeps the events of an AudioParam ordered by time; a new event
\* goes after the events of the same time.
InsertEvent(events, e) ==
    LET k == Cardinality({i \in DOMAIN events : events[i].time <= e.time})
    IN [i \in 1..(Len(events) + 1) |->
           IF i <= k THEN events[i] ELSE IF i = k + 1 THEN e ELSE events[i - 1]]

\* The value an event list yields at audio time t: the value of the latest
\* event at or before t, or, when a linear ramp follows it, the interpolation
\* towards that ramp.
AutomationValueAt(events, t) ==
    LET k == Cardinality({i \in DOMAIN events : events[i].time <= t})
    IN IF k = 0 THEN GainDefault
       ELSE IF k < Len(events) /\ events[k + 1].op = "linearRampToValueAtTime"
            THEN events[k].value +
                 ((events[k + 1].value - events[k].value) * (t - events[k].time))
                     \div (events[k + 1].time - events[k].time)
            ELSE events[k].value

\* AudioParam.value read at audio time t: what the rendering thread last
\* computed.  Events scheduled at t itself have not been rendered yet.
Rendered(events, t) == SelectSeq(events, LAMBDA e : e.at < t)
ParamValueAt(events, t) == AutomationValueAt(Rendered(events, t), t)

\* The value the parameter settles at.
ParamTarget(events) == events[Len(events)].value

\* The MusicPlayer, its nodes, its context's state and the timer queue.
Mus ==
    [currentSource |-> currentSource, currentGain |-> currentGain, isPlaying |-> isPlaying,
     currentBuffer |-> currentBuffer, sources |-> sources, gains |-> gains,
     masterGain |-> masterGain, timers |-> timers, state |-> ctxState[audioContext]]

\* createBufferSource + createGain, wired source -> gain -> masterGain, fading
\* in from 0 and started now.  loopEnd is what play sets and crossfadeTo does not.
NewTrack(M, buffer, volume, fadeTime, loopEnd) ==
    LET id == Len(M.sources) + 1 IN
    [M EXCEPT !.currentBuffer = buffer,
              !.currentSource = id,
              !.currentGain = id,
              !.sources = Append(@, [buffer |-> buffer, loop |-> TRUE, loopEnd |-> loopEnd,
                                     gain |-> id, out |-> "masterGain",
                                     start |-> << AudioNow >>, stop |-> << >>]),
              !.gains = Append(@, << SetValue(0, AudioNow),
                                     LinearRamp(GainValue(volume), AudioNow + fadeTime) >>)]

\* Fade a track out: ramp its gain to 0 and stop its source, both at now + fadeTime.
FadeOut(M, source, gain, fadeTime) ==
    [M EXCEPT !.gains[gain] = InsertEvent(@, LinearRamp(0, AudioNow + fadeTime)),
              !.sources[source].stop = Append(@, AudioNow + fadeTime)]

\* MusicPlayer.stop
MP_stop(M, fadeTime) ==
    IF M.currentSource = NULL \/ ~M.isPlaying
    THEN M
    ELSE [FadeOut(M, M.currentSource, M.currentGain, fadeTime) EXCEPT
              !.timers = Append(@, [kind |-> "cleanup", due |-> now + fadeTime + CleanupSlack]),
              !.isPlaying = FALSE]

\* MusicPlayer.play
MP_play(M, buffer, volume, fadeTime) ==
    LET M1 == IF M.isPlaying THEN MP_stop(M, fadeTime) ELSE M
    IN [NewTrack(M1, buffer, volume, fadeTime, "duration") EXCEPT !.isPlaying = TRUE]

\* MusicPlayer.crossfadeTo
MP_crossfadeTo(M, buffer, volume, crossfadeTime) ==
    IF ~M.isPlaying
    THEN MP_play(M, buffer, volume, crossfadeTime)
    ELSE LET M1 == IF M.currentGain # NULL
                   THEN [M EXCEPT !.gains[M.currentGain] =
                               InsertEvent(@, LinearRamp(0, AudioNow + crossfadeTime))]
                   ELSE M
             M2 == IF M.currentSource # NULL
                   THEN [M1 EXCEPT !.sources[M.currentSource].stop =
                               Append(@, AudioNow + crossfadeTime)]
                   ELSE M1
         IN NewTrack(M2, buffer, volume, crossfadeTime, NULL)

\* MusicPlayer.pause
MP_pause(M) ==
    IF M.isPlaying /\ M.state = "running" THEN [M EXCEPT !.state = "suspended"] ELSE M

\* MusicPlayer.resume
MP_resume(M) ==
    IF M.isPlaying /\ M.state = "suspended" THEN [M EXCEPT !.state = "running"] ELSE M

\* MusicPlayer.setVolume
MP_setVolume(M, volume, rampTime) ==
    IF M.currentGain = NULL
    THEN M
    ELSE [M EXCEPT !.gains[M.currentGain] =
              InsertEvent(@, LinearRamp(GainValue(volume), AudioNow + rampTime))]

\* MusicPlayer.setMasterVolume
MP_setMasterVolume(M, volume, rampTime) ==
    [M EXCEPT !.masterGain.gain =
         InsertEvent(@, LinearRamp(GainValue(Max(0, Min(100, volume))), AudioNow + rampTime))]

\* MusicPlayer.duck up to its await: read the gain's value, ramp down, and wait
\* on a timer that keeps the value read.
MP_duck(M, duckAmount, duckTime) ==
    IF M.currentGain = NULL
    THEN M
    ELSE LET currentVolume == ParamValueAt(M.gains[M.currentGain], AudioNow)
             duckedVolume == (currentVolume * (100 - duckAmount)) \div 100
         IN [M EXCEPT !.gains[M.currentGain] =
                          InsertEvent(@, LinearRamp(duckedVolume, AudioNow + DuckDown)),
                      !.timers = Append(@, [kind |-> "duck", due |-> now + duckTime,
                                            currentVolume |-> currentVolume])]

\* MusicPlayer.dispose
MP_dispose(M) ==
    [MP_stop(M, 0) EXCEPT !.masterGain.out = "none"]

\* The code after duck's await: ramp the gain node that is current by then
\* back to the value read before the wait.  With no current gain node the
\* property access throws and the promise of duck() is rejected.
MP_duckRestore(M, currentVolume) ==
    IF M.currentGain = NULL
    THEN [M |-> M, threw |-> TRUE]
    ELSE [M |-> [M EXCEPT !.gains[M.currentGain] =
                     InsertEvent(@, LinearRamp(currentVolume, AudioNow + DuckUp))],
          threw |-> FALSE]

\* The setTimeout callback of stop.
MP_cleanup(M) == [M EXCEPT !.currentSource = NULL, !.currentGain = NULL]

(***************************************************************************)
(* The MusicPlayer specification.                                           *)
(***************************************************************************)
notMusicVars == <<toneOnlyVars, gameVars, throttleVars, fileVars, unlockVars, prefVars, poolVars,
                  engine, audioContext, ctxSeq>>

MusicInit ==
    /\ engine = "MusicPlayer"
    /\ audioContext = 1
    /\ ctxSeq = 1
    /\ ctxState = << "running" >>
    /\ currentTime = << 0 >>
    /\ userActivated = TRUE
    /\ platformFault = "none"
    /\ enabled = TRUE
    /\ masterVolume = DefaultMasterVolume
    /\ voices = << >>
    /\ calls = << >>
    /\ phrases = << >>
    /\ closed = << >>
    /\ timers = << >>
    /\ now = 0
    /\ nOps = 0
    /\ lastOp = [op |-> "constructor", threw |-> FALSE]
    /\ currentSource = NULL
    /\ currentGain = NULL
    /\ isPlaying = FALSE
    /\ currentBuffer = NULL
    /\ sources = << >>
    /\ gains = << >>
    /\ masterGain = [gain |-> << SetValue(MasterGainDefault, 0) >>, out |-> "destination"]
    /\ musicLog = << >>
    /\ NoThrottledSound
    /\ NoAudioFileManager
    /\ NoAudioUnlocker
    /\ NoAudioPreferences
    /\ NoAudioPool
    /\ NoBreakoutGame

\* The page may call the player: no timer is due.
MusicCanCall == nOps < MaxMusicOps /\ ~TimerDue

MusicCommit(M) ==
    /\ currentSource' = M.currentSource
    /\ currentGain' = M.currentGain
    /\ isPlaying' = M.isPlaying
    /\ currentBuffer' = M.currentBuffer
    /\ sources' = M.sources
    /\ gains' = M.gains
    /\ masterGain' = M.masterGain
    /\ timers' = M.timers
    /\ ctxState' = [ctxState EXCEPT ![audioContext] = M.state]

\* One call or callback, as seen from outside: what ran, when, and on what state.
MusicEntry(op, arg, threw) ==
    [op |-> op, arg |-> arg, at |-> now, t |-> AudioNow, pre |-> Mus, threw |-> threw]

\* A call of the page into the player.
MusicCall(op, arg, M) ==
    /\ MusicCommit(M)
    /\ musicLog' = Append(musicLog, MusicEntry(op, arg, FALSE))
    /\ lastOp' = [op |-> op, threw |-> FALSE]
    /\ nOps' = nOps + 1
    /\ UNCHANGED <<now, currentTime, notMusicVars>>

MusicPlay ==
    /\ MusicCanCall
    /\ \E buffer \in Buffers, volume \in MusicVolumes, fadeTime \in FadeTimes :
         MusicCall("play", [buffer |-> buffer, volume |-> volume, time |-> fadeTime],
                   MP_play(Mus, buffer, volume, fadeTime))

MusicStop ==
    /\ MusicCanCall
    /\ \E fadeTime \in FadeTimes :
         MusicCall("stop", [time |-> fadeTime], MP_stop(Mus, fadeTime))

MusicCrossfadeTo ==
    /\ MusicCanCall
    /\ \E buffer \in Buffers, volume \in MusicVolumes, crossfadeTime \in FadeTimes :
         MusicCall("crossfadeTo", [buffer |-> buffer, volume |-> volume, time |-> crossfadeTime],
                   MP_crossfadeTo(Mus, buffer, volume, crossfadeTime))

MusicPause == MusicCanCall /\ MusicCall("pause", << >>, MP_pause(Mus))

MusicResume == MusicCanCall /\ MusicCall("resume", << >>, MP_resume(Mus))

MusicSetVolume ==
    /\ MusicCanCall
    /\ \E volume \in MusicSetVolumeArgs :
         MusicCall("setVolume", [volume |-> volume], MP_setVolume(Mus, volume, RampTime))

MusicSetMasterVolume ==
    /\ MusicCanCall
    /\ \E volume \in MasterVolumeArgs :
         MusicCall("setMasterVolume", [volume |-> volume], MP_setMasterVolume(Mus, volume, RampTime))

MusicDuck == MusicCanCall /\ MusicCall("duck", << >>, MP_duck(Mus, DuckAmount, DuckTime))

MusicDispose == MusicCanCall /\ MusicCall("dispose", << >>, MP_dispose(Mus))

\* The timer that is due runs: stop's cleanup or the rest of a duck.
MusicTimerFire ==
    /\ timers # << >>
    /\ LET i == NextTimer
           tm == timers[i]
           M0 == [Mus EXCEPT !.timers = RemoveAt(timers, i)]
       IN /\ tm.due <= now
          /\ IF tm.kind = "cleanup"
             THEN /\ MusicCommit(MP_cleanup(M0))
                  /\ musicLog' = Append(musicLog, MusicEntry("cleanup", << >>, FALSE))
                  /\ lastOp' = [op |-> "cleanup", threw |-> FALSE]
             ELSE LET r == MP_duckRestore(M0, tm.currentVolume)
                  IN /\ MusicCommit(r.M)
                     /\ musicLog' = Append(musicLog, MusicEntry("duckRestore", << >>, r.threw))
                     /\ lastOp' = [op |-> "duckRestore", threw |-> r.threw]
    /\ UNCHANGED <<now, currentTime, nOps, notMusicVars>>

\* Time passes, up to the next due timer; the audio clock follows while the
\* context runs.
MusicTick ==
    /\ now < MaxMusicTime
    /\ LET target == IF timers = << >> THEN now + MusicTickStep
                     ELSE Min(now + MusicTickStep, timers[NextTimer].due)
           d == Min(target, MaxMusicTime) - now
       IN /\ d > 0
          /\ now' = now + d
          /\ currentTime' = [c \in DOMAIN currentTime |->
                               IF ctxState[c] = "running" THEN currentTime[c] + d
                               ELSE currentTime[c]]
    /\ UNCHANGED <<musicVars, timers, ctxState, lastOp, nOps, notMusicVars>>

MusicNext ==
    \/ MusicPlay
    \/ MusicStop
    \/ MusicCrossfadeTo
    \/ MusicPause
    \/ MusicResume
    \/ MusicSetVolume
    \/ MusicSetMasterVolume
    \/ MusicDuck
    \/ MusicDispose
    \/ MusicTimerFire
    \/ MusicTick

MusicSpec == MusicInit /\ [][MusicNext]_vars

(***************************************************************************)
(* Vocabulary of the MusicPlayer properties.                                *)
(***************************************************************************)
\* The latest call or callback, and whether the state is still the one it left.
LastMusic == musicLog[Len(musicLog)]
JustRan(op) ==
    /\ musicLog # << >>
    /\ LastMusic.op = op
    /\ LastMusic.at = now
    /\ LastMusic.t = AudioNow

\* The sources of player state M that were started and never told to stop:
\* looping, they play on.
Unstopped(M) == {x \in DOMAIN M.sources : M.sources[x].stop = << >>}

\* Source x is scheduled to fade to 0 and stop at audio time t.
FadesOutAt(x, t) ==
    /\ sources[x].stop = << t >>
    /\ \E k \in DOMAIN gains[sources[x].gain] :
          LET ev == gains[sources[x].gain][k]
          IN ev.op = "linearRampToValueAtTime" /\ ev.value = 0 /\ ev.time = t

(***************************************************************************)
(* C16.  MusicPlayer.stop stops the current track whenever a track is      *)
(* playing: a stop(fadeTime) call that finds isPlaying true leaves         *)
(* isPlaying false, and every source that was playing without a scheduled  *)
(* stop has its gain ramped to 0 and its stop scheduled at now + fadeTime. *)
(***************************************************************************)
C16_StopStopsThePlayingTrack ==
    (JustRan("stop") /\ LastMusic.pre.isPlaying) =>
        /\ ~isPlaying
        /\ \A x \in Unstopped(LastMusic.pre) : FadesOutAt(x, LastMusic.t + LastMusic.arg.time)

(***************************************************************************)
(* C17.  crossfadeTo(buffer, volume, t) called while a track is playing    *)
(* schedules the old source to fade to 0 and stop at now + t, makes a new  *)
(* looping source the current track with its gain ramping from 0 to        *)
(* volume, and leaves isPlaying true; called while no track is playing it  *)
(* leaves the player in the state play(buffer, volume, t) would.            *)
(***************************************************************************)
C17_CrossfadeReplacesThePlayingTrack ==
    JustRan("crossfadeTo") =>
        LET e == LastMusic
            a == e.arg
        IN IF e.pre.isPlaying
           THEN /\ \A x \in Unstopped(e.pre) : FadesOutAt(x, e.t + a.time)
                /\ Len(sources) = Len(e.pre.sources) + 1
                /\ currentSource = Len(sources)
                /\ sources[currentSource].buffer = a.buffer
                /\ sources[currentSource].loop
                /\ sources[currentSource].start = << e.t >>
                /\ sources[currentSource].gain = currentGain
                /\ gains[currentGain] =
                      << SetValue(0, e.t), LinearRamp(GainValue(a.volume), e.t + a.time) >>
                /\ isPlaying
           ELSE Mus = MP_play(e.pre, a.buffer, a.volume, a.time)

(***************************************************************************)
(* C18.  Paused music can be resumed: a resume() call that finds the       *)
(* context suspended (only pause() suspends it) leaves it running,         *)
(* whatever calls came between pause() and resume().                        *)
(***************************************************************************)
C18_ResumeAfterPauseRuns ==
    (JustRan("resume") /\ LastMusic.pre.state = "suspended") =>
        ctxState[audioContext] = "running"

(***************************************************************************)
(* C19.  duck restores the volume: when duck() calls, overlapping or not,  *)
(* were the only activity on a track whose gain had settled, then once     *)
(* every one of them has completed the gain of the current track settles   *)
(* at the value it had before the first of them began.                      *)
(***************************************************************************)
DuckCalls == {i \in DOMAIN musicLog : musicLog[i].op = "duck" /\ musicLog[i].pre.currentGain # NULL}
DucksPending == \E k \in DOMAIN timers : timers[k].kind = "duck"

C19_DuckRestoresVolume ==
    \A i \in DuckCalls :
        LET e == musicLog[i]
            g == e.pre.currentGain
            before == ParamTarget(e.pre.gains[g])
        IN (/\ \A j \in DuckCalls : i <= j
            /\ \A j \in DOMAIN musicLog : j > i => musicLog[j].op \in {"duck", "duckRestore"}
            /\ ParamValueAt(e.pre.gains[g], e.t) = before
            /\ ~DucksPending) =>
               /\ currentGain = g
               /\ ParamTarget(gains[g]) = before

(***************************************************************************)
(* C27.  In every reachable MusicPlayer state, isPlaying true implies that *)
(* currentSource and currentGain are non-null and are the source and gain  *)
(* of the most recently started track.                                      *)
(***************************************************************************)
C27_PlayingMeansCurrentTrackIsLatest ==
    isPlaying =>
        /\ currentSource # NULL
        /\ currentGain # NULL
        /\ currentSource = Len(sources)
        /\ currentGain = sources[Len(sources)].gain

(***************************************************************************)
(* C28.  MusicPlayer never leaves an orphaned loop: every looping source   *)
(* it has started is the current track or has a stop scheduled, so at most *)
(* one source plays without a scheduled stop.                               *)
(***************************************************************************)
C28_NoOrphanedLoop ==
    /\ \A x \in Unstopped(Mus) : x = currentSource
    /\ Cardinality(Unstopped(Mus)) <= 1

(***************************************************************************)
(* ThrottledSound (EXAMPLES.md, lines 159-198).  One behaviour of          *)
(* ThrottleSpec is one ThrottledSound; now is Date.now(), in ms.            *)
(***************************************************************************)
\* Date.now() when the object is constructed: far above any interval.
Epoch == 1000

MinIntervals == {50, 100}
SetIntervalArgs == {-10, 100}
ClockSteps == {50}

\* ThrottledSound.play that forgets to note when it played.
TS_play_KeepsLastPlayed(T, t, throws) ==
    IF t - T.lastPlayed < T.minInterval
    THEN [T |-> T, invoked |-> FALSE, returned |-> "false"]
    ELSE [T |-> T, invoked |-> TRUE,
          returned |-> IF throws THEN "threw" ELSE "true"]

\* ThrottledSound.play at Date.now() = t, on the fields T; throws: whether the
\* play function throws.
TS_play(T, t, throws) ==
    IF t - T.lastPlayed < T.minInterval
    THEN [T |-> T, invoked |-> FALSE, returned |-> "false"]
    ELSE [T |-> [T EXCEPT !.lastPlayed = t], invoked |-> TRUE,
          returned |-> IF throws THEN "threw" ELSE "true"]

\* ThrottledSound.reset
TS_reset(T) == [T EXCEPT !.lastPlayed = 0]

\* ThrottledSound.setInterval
TS_setInterval(T, interval) == [T EXCEPT !.minInterval = Max(0, interval)]

Thr == [minInterval |-> minInterval, lastPlayed |-> lastPlayed]

notThrottleVars == <<toneOnlyVars, gameVars, musicVars, fileVars, unlockVars, prefVars, poolVars,
                     engine, audioContext, ctxSeq, ctxState, currentTime, timers>>

ThrottleInit ==
    /\ engine = "ThrottledSound"
    /\ audioContext = NULL
    /\ ctxSeq = 0
    /\ ctxState = << >>
    /\ currentTime = << >>
    /\ userActivated = FALSE
    /\ platformFault = "none"
    /\ enabled = TRUE
    /\ masterVolume = DefaultMasterVolume
    /\ voices = << >>
    /\ calls = << >>
    /\ phrases = << >>
    /\ closed = << >>
    /\ timers = << >>
    /\ now = Epoch
    /\ nOps = 0
    /\ lastOp = [op |-> "constructor", threw |-> FALSE]
    /\ NoMusicPlayer
    /\ minInterval \in MinIntervals
    /\ lastPlayed = 0
    /\ throttleLog = << >>
    /\ NoAudioFileManager
    /\ NoAudioUnlocker
    /\ NoAudioPreferences
    /\ NoAudioPool
    /\ NoBreakoutGame

ThrottleCommit(T) ==
    /\ minInterval' = T.minInterval
    /\ lastPlayed' = T.lastPlayed

\* One call, as seen from outside.
ThrottleEntry(op, invoked, returned) ==
    [op |-> op, at |-> now, minInterval |-> minInterval, lastPlayed |-> lastPlayed,
     invoked |-> invoked, returned |-> returned]

ThrottlePlay ==
    /\ nOps < MaxThrottleOps
    /\ \E throws \in BOOLEAN :
         LET r == TS_play(Thr, now, throws)
         IN /\ ThrottleCommit(r.T)
            /\ throttleLog' = Append(throttleLog, ThrottleEntry("play", r.invoked, r.returned))
            /\ lastOp' = [op |-> "play", threw |-> r.returned = "threw"]
    /\ nOps' = nOps + 1
    /\ UNCHANGED <<now, notThrottleVars>>

ThrottleReset ==
    /\ nOps < MaxThrottleOps
    /\ ThrottleCommit(TS_reset(Thr))
    /\ throttleLog' = Append(throttleLog, ThrottleEntry("reset", FALSE, "none"))
    /\ lastOp' = [op |-> "reset", threw |-> FALSE]
    /\ nOps' = nOps + 1
    /\ UNCHANGED <<now, notThrottleVars>>

ThrottleSetInterval ==
    /\ nOps < MaxThrottleOps
    /\ \E interval \in SetIntervalArgs : ThrottleCommit(TS_setInterval(Thr, interval))
    /\ throttleLog' = Append(throttleLog, ThrottleEntry("setInterval", FALSE, "none"))
    /\ lastOp' = [op |-> "setInterval", threw |-> FALSE]
    /\ nOps' = nOps + 1
    /\ UNCHANGED <<now, notThrottleVars>>

\* Date.now() moves on.
ThrottleTick ==
    /\ \E d \in ClockSteps :
         /\ now + d <= MaxThrottleTime
         /\ now' = now + d
    /\ UNCHANGED <<throttleVars, lastOp, nOps, notThrottleVars>>

\* The system clock is set back: Date.now() is not monotonic.
ClockSetBack ==
    /\ nOps < MaxThrottleOps
    /\ \E d \in ClockSteps :
         /\ now - d >= Epoch
         /\ now' = now - d
    /\ throttleLog' = Append(throttleLog, ThrottleEntry("clockSetBack", FALSE, "none"))
    /\ lastOp' = [op |-> "clockSetBack", threw |-> FALSE]
    /\ nOps' = nOps + 1
    /\ UNCHANGED <<minInterval, lastPlayed, notThrottleVars>>

ThrottleNext ==
    \/ ThrottlePlay
    \/ ThrottleReset
    \/ ThrottleSetInterval
    \/ ThrottleTick
    \/ ClockSetBack

ThrottleSpec == ThrottleInit /\ [][ThrottleNext]_vars

(***************************************************************************)
(* C20.  ThrottledSound.play() invokes the play function and returns true  *)
(* only when at least minInterval ms have passed since the last call that  *)
(* got past the throttle; otherwise it returns false and does not invoke   *)
(* it.  So, with a clock that did not go back and no reset() in between,   *)
(* any two played sounds are at least minInterval ms apart: a play() that  *)
(* comes sooner returns false, one that returns true comes minInterval or  *)
(* more after the one before.                                               *)
(***************************************************************************)
Plays == {i \in DOMAIN throttleLog : throttleLog[i].op = "play"}
Played == {i \in Plays : throttleLog[i].invoked}

\* No reset() and no step back of the clock between calls i and j.
Undisturbed(i, j) ==
    \A k \in DOMAIN throttleLog :
        (i < k /\ k < j) => throttleLog[k].op \notin {"reset", "clockSetBack"}

C20_PlayedSoundsAreSpaced ==
    /\ \A j \in Plays :
          LET e == throttleLog[j] IN
          /\ e.returned = "true" => e.invoked
          /\ e.returned = "false" => ~e.invoked
          /\ e.invoked <=> e.at - e.lastPlayed >= e.minInterval
    /\ \A i, j \in Plays :
          LET a == throttleLog[i]
              b == throttleLog[j]
          IN (i < j /\ a.invoked /\ Undisturbed(i, j)) =>
                /\ b.invoked => b.at - a.at >= b.minInterval
                /\ b.at - a.at < b.minInterval => (b.returned = "false" /\ ~b.invoked)

\* A play() too soon after a played sound was refused, and a later one, the
\* interval over, played.
C20_Witness ==
    \E i, j, k \in Plays :
        /\ i < j /\ j < k
        /\ Undisturbed(i, k)
        /\ throttleLog[i].returned = "true"
        /\ throttleLog[j].returned = "false"
        /\ throttleLog[j].at > throttleLog[i].at
        /\ throttleLog[k].returned = "true"
        /\ throttleLog[k].at - throttleLog[i].at >= throttleLog[k].minInterval
        /\ throttleLog[k].minInterval > 0

(***************************************************************************)
(* AudioPool (EXAMPLES.md, lines 352-387).                                  *)
(*                                                                          *)
(* GainNodes are numbered in creation order; poolNodes[n] says whether node *)
(* n is connected to anything and what the latest value set on its gain is. *)
(* The caller may connect a node it was handed, set its gain, and release   *)
(* any node it was ever handed, also one it has released before.            *)
(***************************************************************************)
MaxPoolOps == 5      \* AudioPool and caller steps per behaviour
PoolSizes == {0, 1, 2}
CallerGains == {5000}

AP_Node(connected, gain) == [connected |-> connected, gain |-> gain]

AP_releaseGainNode_Unbounded(P, node) ==
    [P EXCEPT !.poolNodes[node] = AP_Node(FALSE, GainDefault),
              !.pool = Append(P.pool, node)]

AP_getGainNode(P) ==
    IF Len(P.pool) > 0
    THEN [P |-> [P EXCEPT !.pool = SubSeq(P.pool, 1, Len(P.pool) - 1)],
          returned |-> P.pool[Len(P.pool)], created |-> FALSE]
    ELSE [P |-> [P EXCEPT !.poolNodes = Append(P.poolNodes, AP_Node(FALSE, GainDefault))],
          returned |-> Len(P.poolNodes) + 1, created |-> TRUE]

AP_releaseGainNode(P, node) ==
    IF Len(P.pool) < P.maxSize
    THEN [P EXCEPT !.poolNodes[node] = AP_Node(FALSE, GainDefault),
                   !.pool = Append(P.pool, node)]
    ELSE P

AP_clear(P) ==
    [P EXCEPT !.poolNodes = [n \in DOMAIN P.poolNodes |->
                                IF \E i \in DOMAIN P.pool : P.pool[i] = n
                                THEN [P.poolNodes[n] EXCEPT !.connected = FALSE]
                                ELSE P.poolNodes[n]],
              !.pool = << >>]

Pool == [pool |-> pool, maxSize |-> maxSize, poolNodes |-> poolNodes]

notPoolVars == <<toneOnlyVars, gameVars, musicVars, throttleVars, fileVars, unlockVars, prefVars,
                 engine, audioContext, ctxSeq, ctxState, currentTime, timers, now>>

PoolInit ==
    /\ engine = "AudioPool"
    /\ audioContext = 1
    /\ ctxSeq = 1
    /\ ctxState = << "running" >>
    /\ currentTime = << 0 >>
    /\ timers = << >>
    /\ now = 0
    /\ nOps = 0
    /\ lastOp = [op |-> "constructor", threw |-> FALSE]
    /\ NoToneEngine
    /\ NoMusicPlayer
    /\ NoThrottledSound
    /\ NoAudioFileManager
    /\ NoAudioUnlocker
    /\ NoAudioPreferences
    /\ pool = << >>
    /\ maxSize \in PoolSizes
    /\ poolNodes = << >>
    /\ poolLog = << >>
    /\ NoBreakoutGame

PoolCommit(P) ==
    /\ pool' = P.pool
    /\ poolNodes' = P.poolNodes
    /\ UNCHANGED maxSize

\* One call, as seen from outside: what ran, on which pool, and what it returned.
PoolEntry(op, arg, returned, created) ==
    [op |-> op, arg |-> arg, pre |-> pool, returned |-> returned, created |-> created]

PoolGetGainNode ==
    /\ nOps < MaxPoolOps
    /\ LET r == AP_getGainNode(Pool)
       IN /\ PoolCommit(r.P)
          /\ poolLog' = Append(poolLog, PoolEntry("getGainNode", NULL, r.returned, r.created))
    /\ lastOp' = [op |-> "getGainNode", threw |-> FALSE]
    /\ nOps' = nOps + 1
    /\ UNCHANGED notPoolVars

PoolReleaseGainNode ==
    /\ nOps < MaxPoolOps
    /\ \E node \in DOMAIN poolNodes :
         /\ PoolCommit(AP_releaseGainNode(Pool, node))
         /\ poolLog' = Append(poolLog, PoolEntry("releaseGainNode", node, NULL, FALSE))
    /\ lastOp' = [op |-> "releaseGainNode", threw |-> FALSE]
    /\ nOps' = nOps + 1
    /\ UNCHANGED notPoolVars

PoolClear ==
    /\ nOps < MaxPoolOps
    /\ PoolCommit(AP_clear(Pool))
    /\ poolLog' = Append(poolLog, PoolEntry("clear", NULL, NULL, FALSE))
    /\ lastOp' = [op |-> "clear", threw |-> FALSE]
    /\ nOps' = nOps + 1
    /\ UNCHANGED notPoolVars

\* The caller puts a node it holds to use: connects it and sets its gain.
PoolCallerUsesNode ==
    /\ nOps < MaxPoolOps
    /\ \E node \in DOMAIN poolNodes, gain \in CallerGains :
         /\ \A i \in DOMAIN pool : pool[i] # node
         /\ ~poolNodes[node].connected
         /\ poolNodes' = [poolNodes EXCEPT ![node] = AP_Node(TRUE, gain)]
    /\ lastOp' = [op |-> "use", threw |-> FALSE]
    /\ nOps' = nOps + 1
    /\ UNCHANGED <<pool, maxSize, poolLog, notPoolVars>>

PoolNext ==
    \/ PoolGetGainNode
    \/ PoolReleaseGainNode
    \/ PoolClear
    \/ PoolCallerUsesNode

PoolSpec == PoolInit /\ [][PoolNext]_vars

(***************************************************************************)
(* C26.  The AudioPool never holds more than maxSize nodes, and            *)
(* getGainNode returns a pooled node, taking it out of the pool, whenever  *)
(* the pool is non-empty and creates a new node only when it is empty.      *)
(***************************************************************************)
PoolGets == {i \in DOMAIN poolLog : poolLog[i].op = "getGainNode"}

C26_PoolIsBoundedAndReused ==
    /\ Len(pool) <= maxSize
    /\ \A i \in PoolGets :
          LET e == poolLog[i]
          IN /\ Len(e.pre) > 0 =>
                  /\ ~e.created
                  /\ e.returned = e.pre[Len(e.pre)]
             /\ e.created <=> Len(e.pre) = 0
             /\ e.created => \A j \in 1..(i - 1) : poolLog[j].returned # e.returned

\* A full pool has refused a node, and a pooled node has been handed out again.
C26_Witness ==
    /\ \E i \in DOMAIN poolLog :
          /\ poolLog[i].op = "releaseGainNode"
          /\ Len(poolLog[i].pre) = maxSize
          /\ maxSize > 0
    /\ \E i \in PoolGets : ~poolLog[i].created

(***************************************************************************)
(* C32.  A gain node is in the AudioPool at most once, and getGainNode     *)
(* never returns a node that a caller still holds: one that an earlier      *)
(* getGainNode returned and that has not been passed to releaseGainNode     *)
(* since.                                                                    *)
(***************************************************************************)
\* The calls before call i that handed out node n or took it back.
PoolCallsOn(n, i) ==
    {j \in 1..(i - 1) :
        \/ poolLog[j].op = "getGainNode" /\ poolLog[j].returned = n
        \/ poolLog[j].op = "releaseGainNode" /\ poolLog[j].arg = n}

HeldBefore(n, i) ==
    /\ PoolCallsOn(n, i) # {}
    /\ LET last == CHOOSE j \in PoolCallsOn(n, i) : \A k \in PoolCallsOn(n, i) : k <= j
       IN poolLog[last].op = "getGainNode"

C32_PooledOnceAndNeverShared ==
    /\ \A i, j \in DOMAIN pool : i # j => pool[i] # pool[j]
    /\ \A i \in PoolGets : ~HeldBefore(poolLog[i].returned, i)

(***************************************************************************)
(* AudioUnlocker (EXAMPLES.md, lines 206-273).                              *)
(*                                                                          *)
(* Callbacks are numbered by their onUnlock registration.  unlock() is an   *)
(* async function: it runs to its await of context.resume() within the call *)
(* and continues when that promise settles.  The context settles all its    *)
(* pending resume promises together, in the order of the resume() calls, so *)
(* the continuations of all waiting unlock() calls run one after another.   *)
(***************************************************************************)
MaxUnlockOps == 5    \* AudioUnlocker calls and platform events per behaviour

AU == [unlocked |-> unlocked, listeners |-> listeners, unlocking |-> unlocking,
       unlockHandlers |-> unlockHandlers, throwing |-> throwing,
       invocations |-> invocations, state |-> ctxState[audioContext]]

\* callback(): one more invocation of the callback registered as cb.
AU_invoke(inv, cb) == [inv EXCEPT ![cb] = @ + 1]

\* this.listeners.forEach(callback => callback()): the callbacks run in
\* order; the first one that throws ends the loop with its exception.
RECURSIVE AU_forEach(_, _, _)
AU_forEach(inv, ls, bad) ==
    IF ls = << >>
    THEN [invocations |-> inv, threw |-> FALSE]
    ELSE IF Head(ls) \in bad
         THEN [invocations |-> AU_invoke(inv, Head(ls)), threw |-> TRUE]
         ELSE AU_forEach(AU_invoke(inv, Head(ls)), Tail(ls), bad)

\* How the unlock() call numbered k ends: what it resolves to, and
\* this.unlocked at that moment.
AU_return(U, k, result) ==
    [U EXCEPT !.unlocking[k] = [stage |-> "done", result |-> result, after |-> U.unlocked]]

\* unlock() from the silent buffer on (lines 226-243), for the call numbered
\* k; nodesFail says that the context refuses to create the buffer or its source.
AU_unlockTail(U, k, nodesFail) ==
    IF nodesFail
    THEN AU_return(U, k, FALSE)
    ELSE LET r == AU_forEach(U.invocations, U.listeners, U.throwing)
             V == [U EXCEPT !.unlocked = TRUE, !.invocations = r.invocations]
         IN AU_return(V, k, ~r.threw)

\* unlock() up to its first await or its return (lines 217-224).
AU_unlock(U, nodesFail) ==
    LET k == Len(U.unlocking) + 1
        V == [U EXCEPT !.unlocking = Append(U.unlocking, [stage |-> "resume", result |-> FALSE,
                                                         after |-> FALSE])]
    IN IF U.unlocked
       THEN AU_return(V, k, TRUE)
       ELSE IF U.state = "suspended"
            THEN V
            ELSE AU_unlockTail(V, k, nodesFail)

\* unlock() after its await: the resume promise was fulfilled or rejected.
AU_unlockResumed(U, k, fulfilled, nodesFail) ==
    IF fulfilled
    THEN AU_unlockTail(U, k, nodesFail)
    ELSE AU_return(U, k, FALSE)

\* onUnlock(callback); throws says that the callback throws when invoked.
AU_onUnlock(U, throws) ==
    LET cb == Len(U.invocations) + 1
        V == [U EXCEPT !.invocations = Append(U.invocations, 0),
                       !.throwing = IF throws THEN @ \cup {cb} ELSE @]
    IN IF U.unlocked
       THEN [V EXCEPT !.invocations = AU_invoke(V.invocations, cb)]
       ELSE [V EXCEPT !.listeners = Append(V.listeners, cb)]

AU_setupAutoUnlock(U) == [U EXCEPT !.unlockHandlers = @ + 1]

\* The first click, touchstart or keydown: every registered unlockHandler
\* runs once, calls unlock() and removes itself.
RECURSIVE AU_gesture(_, _)
AU_gesture(U, nodesFail) ==
    IF U.unlockHandlers = 0
    THEN U
    ELSE AU_gesture(AU_unlock([U EXCEPT !.unlockHandlers = @ - 1], nodesFail), nodesFail)

AU_Waiting(U) == {k \in DOMAIN U.unlocking : U.unlocking[k].stage = "resume"}

\* The context settles its pending resume promises, oldest first.
RECURSIVE AU_settle(_, _, _)
AU_settle(U, fulfilled, nodesFail) ==
    IF AU_Waiting(U) = {}
    THEN U
    ELSE LET k == CHOOSE k \in AU_Waiting(U) : \A j \in AU_Waiting(U) : k <= j
         IN AU_settle(AU_unlockResumed(U, k, fulfilled, nodesFail), fulfilled, nodesFail)

notUnlockVars == <<toneOnlyVars, gameVars, musicVars, throttleVars, fileVars, prefVars, poolVars,
                   engine, audioContext, ctxSeq, currentTime, timers, now>>

UnlockInit ==
    /\ engine = "AudioUnlocker"
    /\ audioContext = 1
    /\ ctxSeq = 1
    /\ ctxState \in {<< "suspended" >>, << "running" >>}
    /\ currentTime = << 0 >>
    /\ timers = << >>
    /\ now = 0
    /\ nOps = 0
    /\ lastOp = [op |-> "constructor", threw |-> FALSE]
    /\ NoToneEngine
    /\ NoMusicPlayer
    /\ NoThrottledSound
    /\ NoAudioFileManager
    /\ NoAudioPreferences
    /\ NoAudioPool
    /\ unlocked = FALSE
    /\ listeners = << >>
    /\ unlocking = << >>
    /\ unlockHandlers = 0
    /\ throwing = {}
    /\ invocations = << >>
    /\ NoBreakoutGame

UnlockCommit(U) ==
    /\ unlocked' = U.unlocked
    /\ listeners' = U.listeners
    /\ unlocking' = U.unlocking
    /\ unlockHandlers' = U.unlockHandlers
    /\ throwing' = U.throwing
    /\ invocations' = U.invocations
    /\ ctxState' = [ctxState EXCEPT ![audioContext] = U.state]

UnlockStep(op, threw) ==
    /\ nOps < MaxUnlockOps
    /\ nOps' = nOps + 1
    /\ lastOp' = [op |-> op, threw |-> threw]
    /\ UNCHANGED notUnlockVars

UnlockUnlock ==
    /\ UnlockStep("unlock", FALSE)
    /\ \E nodesFail \in BOOLEAN : UnlockCommit(AU_unlock(AU, nodesFail))

\* onUnlock(callback) throws to its caller when it invokes a callback that throws.
UnlockOnUnlock ==
    \E throws \in BOOLEAN :
        /\ UnlockStep("onUnlock", unlocked /\ throws)
        /\ UnlockCommit(AU_onUnlock(AU, throws))

UnlockSetupAutoUnlock ==
    /\ UnlockStep("setupAutoUnlock", FALSE)
    /\ UnlockCommit(AU_setupAutoUnlock(AU))

UnlockGesture ==
    /\ UnlockStep("gesture", FALSE)
    /\ unlockHandlers > 0
    /\ \E nodesFail \in BOOLEAN : UnlockCommit(AU_gesture(AU, nodesFail))

\* The platform starts the context, or refuses to, and settles the resume
\* promises of the unlock() calls that wait for it.
UnlockResumeSettles ==
    /\ UnlockStep("resumeSettles", FALSE)
    /\ AU_Waiting(AU) # {}
    /\ \E fulfilled, nodesFail \in BOOLEAN :
         UnlockCommit(AU_settle([AU EXCEPT !.state = IF fulfilled THEN "running" ELSE @],
                                fulfilled, nodesFail))

UnlockNext ==
    \/ UnlockUnlock
    \/ UnlockOnUnlock
    \/ UnlockSetupAutoUnlock
    \/ UnlockGesture
    \/ UnlockResumeSettles

UnlockSpec == UnlockInit /\ [][UnlockNext]_vars

(***************************************************************************)
(* C23.  Each callback registered with onUnlock is invoked exactly once:   *)
(* never more than once, and once as soon as audio is unlocked, also when   *)
(* unlock() calls overlap or follow one another.                            *)
(***************************************************************************)
C23_CallbacksInvokedExactlyOnce ==
    \A cb \in DOMAIN invocations :
        /\ invocations[cb] <= 1
        /\ unlocked => invocations[cb] = 1

(***************************************************************************)
(* AudioPreferences (EXAMPLES.md, lines 281-343).                           *)
(*                                                                          *)
(* JavaScript values carry their type: a number in hundredths, a boolean,   *)
(* NaN, null or undefined.  An object is a function from the property names *)
(* to values, undefined for a property it does not have.  A JSON text is    *)
(* the sequence of its members.                                              *)
(***************************************************************************)
MaxPrefOps == 3      \* AudioPreferences calls per behaviour

Num(h) == [t |-> "number", v |-> h]
Bool(b) == [t |-> "boolean", v |-> IF b THEN 1 ELSE 0]
NaN == [t |-> "NaN", v |-> 0]
JsNull == [t |-> "null", v |-> 0]
Undefined == [t |-> "undefined", v |-> 0]

\* Math.min and Math.max of two numbers: NaN if either is NaN.
Math_min(a, b) == IF a.t = "NaN" \/ b.t = "NaN" THEN NaN ELSE Num(Min(a.v, b.v))
Math_max(a, b) == IF a.t = "NaN" \/ b.t = "NaN" THEN NaN ELSE Num(Max(a.v, b.v))

\* Math.max(0, Math.min(1, volume))
Clamp01(volume) == Math_max(Num(0), Math_min(Num(100), volume))

PrefKeys == <<"enabled", "masterVolume", "sfxVolume", "musicVolume">>
PrefKeySet == {PrefKeys[i] : i \in DOMAIN PrefKeys}

\* JSON.stringify(object): a member for every property that is not
\* undefined, in property order; NaN is written as null.
JSON_value(x) == IF x.t = "NaN" THEN JsNull ELSE x

JSON_stringify_Lossless(object) ==
    LET present == SelectSeq(PrefKeys, LAMBDA k : object[k].t # "undefined")
    IN [i \in DOMAIN present |-> [key |-> present[i], value |-> object[present[i]]]]

JSON_stringify(object) ==
    LET present == SelectSeq(PrefKeys, LAMBDA k : object[k].t # "undefined")
    IN [i \in DOMAIN present |-> [key |-> present[i], value |-> JSON_value(object[present[i]])]]

\* JSON.parse(text): a property for every member.
JSON_parse(text) ==
    [k \in PrefKeySet |->
        IF \E i \in DOMAIN text : text[i].key = k
        THEN text[CHOOSE i \in DOMAIN text : text[i].key = k].value
        ELSE Undefined]

Prefs_getDefaults ==
    [k \in PrefKeySet |->
        CASE k = "enabled" -> Bool(TRUE)
          [] k = "masterVolume" -> Num(DefaultMasterVolume)
          [] k = "sfxVolume" -> Num(100)
          [] k = "musicVolume" -> Num(50)]

\* localStorage under this.storageKey: no item, an item that is not JSON, or a JSON text.
NoItem == [has |-> FALSE, valid |-> FALSE, text |-> << >>]
BrokenItem == [has |-> TRUE, valid |-> FALSE, text |-> << >>]
Item(text) == [has |-> TRUE, valid |-> TRUE, text |-> text]

Prefs_load(S) ==
    IF S.has /\ S.valid THEN JSON_parse(S.text) ELSE Prefs_getDefaults

\* save(); fails says that localStorage.setItem throws.
Prefs_save(P, S, fails) ==
    IF fails
    THEN [preferences |-> P, storage |-> S, saved |-> FALSE]
    ELSE [preferences |-> P, storage |-> Item(JSON_stringify(P)), saved |-> TRUE]

Prefs_get(P, key) == P[key]

Prefs_set(P, S, key, value, fails) == Prefs_save([P EXCEPT ![key] = value], S, fails)

Prefs_setEnabled(P, S, value, fails) == Prefs_set(P, S, "enabled", value, fails)
Prefs_setMasterVolume(P, S, volume, fails) ==
    Prefs_set(P, S, "masterVolume", Clamp01(volume), fails)
Prefs_setSfxVolume(P, S, volume, fails) ==
    Prefs_set(P, S, "sfxVolume", Clamp01(volume), fails)
Prefs_setMusicVolume(P, S, volume, fails) ==
    Prefs_set(P, S, "musicVolume", Clamp01(volume), fails)

Prefs_reset(P, S, fails) == Prefs_save(Prefs_getDefaults, S, fails)

\* Inputs.
SetKeys == {"enabled", "masterVolume"}
SetValues == {Bool(FALSE), Num(30), NaN}
VolumeArgs == {Num(-50), Num(30), Num(150), NaN}
OtherVolumeArgs == {Num(150)}
\* What an earlier session may have left in localStorage.
EarlierItems ==
    {NoItem, BrokenItem,
     Item(JSON_stringify([Prefs_getDefaults EXCEPT !["enabled"] = Bool(FALSE),
                                                   !["masterVolume"] = Num(20),
                                                   !["musicVolume"] = Undefined]))}

notPrefVars == <<toneOnlyVars, gameVars, musicVars, throttleVars, fileVars, unlockVars, poolVars,
                 engine, audioContext, ctxSeq, ctxState, currentTime, timers, now>>

PrefInit ==
    /\ engine = "AudioPreferences"
    /\ audioContext = NULL
    /\ ctxSeq = 0
    /\ ctxState = << >>
    /\ currentTime = << >>
    /\ timers = << >>
    /\ now = 0
    /\ nOps = 0
    /\ lastOp = [op |-> "constructor", threw |-> FALSE]
    /\ NoToneEngine
    /\ NoMusicPlayer
    /\ NoThrottledSound
    /\ NoAudioFileManager
    /\ NoAudioUnlocker
    /\ NoAudioPool
    /\ storage \in EarlierItems
    /\ preferences = Prefs_load(storage)
    /\ prefLog = << >>
    /\ NoBreakoutGame

\* One call, as seen from outside.
PrefEntry(op, key, value, saved) ==
    [op |-> op, key |-> key, value |-> value, saved |-> saved, pre |-> preferences]

PrefCanCall == nOps < MaxPrefOps

PrefCall(op, key, value, r) ==
    /\ preferences' = r.preferences
    /\ storage' = r.storage
    /\ prefLog' = Append(prefLog, PrefEntry(op, key, value, r.saved))
    /\ lastOp' = [op |-> op, threw |-> FALSE]
    /\ nOps' = nOps + 1
    /\ UNCHANGED notPrefVars

PrefSet ==
    /\ PrefCanCall
    /\ \E key \in SetKeys, value \in SetValues, fails \in BOOLEAN :
            PrefCall("set", key, value, Prefs_set(preferences, storage, key, value, fails))

PrefSetEnabled ==
    /\ PrefCanCall
    /\ \E value \in {Bool(TRUE), Bool(FALSE)}, fails \in BOOLEAN :
            PrefCall("setEnabled", "enabled", value,
                     Prefs_setEnabled(preferences, storage, value, fails))

PrefSetMasterVolume ==
    /\ PrefCanCall
    /\ \E volume \in VolumeArgs, fails \in BOOLEAN :
            PrefCall("setMasterVolume", "masterVolume", volume,
                     Prefs_setMasterVolume(preferences, storage, volume, fails))

PrefSetSfxVolume ==
    /\ PrefCanCall
    /\ \E volume \in OtherVolumeArgs, fails \in BOOLEAN :
            PrefCall("setSfxVolume", "sfxVolume", volume,
                     Prefs_setSfxVolume(preferences, storage, volume, fails))

PrefSetMusicVolume ==
    /\ PrefCanCall
    /\ \E volume \in OtherVolumeArgs, fails \in BOOLEAN :
            PrefCall("setMusicVolume", "musicVolume", volume,
                     Prefs_setMusicVolume(preferences, storage, volume, fails))

PrefReset ==
    /\ PrefCanCall
    /\ \E fails \in BOOLEAN :
            PrefCall("reset", "", Undefined, Prefs_reset(preferences, storage, fails))

\* new AudioPreferences(storageKey): the page is loaded again.
PrefNew ==
    /\ PrefCanCall
    /\ PrefCall("new", "", Undefined,
                [preferences |-> Prefs_load(storage), storage |-> storage, saved |-> FALSE])

PrefNext ==
    \/ PrefSet
    \/ PrefSetEnabled
    \/ PrefSetMasterVolume
    \/ PrefSetSfxVolume
    \/ PrefSetMusicVolume
    \/ PrefReset
    \/ PrefNew

PrefSpec == PrefInit /\ [][PrefNext]_vars

\* The latest call, if its storage write succeeded.
LastPref == prefLog[Len(prefLog)]
JustSaved == prefLog # << >> /\ LastPref.saved

\* What get(key) of a new AudioPreferences with the same storageKey returns.
Reloaded(key) == Prefs_get(Prefs_load(storage), key)

(***************************************************************************)
(* C25 as stated.  After a set, a typed setter or a reset whose storage    *)
(* write succeeded, a new AudioPreferences with the same storageKey returns *)
(* for every key the value the saving instance holds, and for every key     *)
(* that was not set the value it had before.                                *)
(***************************************************************************)
C25_SavedPreferencesComeBackUnchanged ==
    JustSaved =>
        \A key \in PrefKeySet :
            /\ Reloaded(key) = Prefs_get(preferences, key)
            /\ (LastPref.op # "reset" /\ key # LastPref.key) => Reloaded(key) = LastPref.pre[key]

(***************************************************************************)
(* C25 as amended.  After such a call a new AudioPreferences returns for   *)
(* every key the value the saving instance holds as JSON writes it: the     *)
(* same boolean or finite number, and null for NaN; a key the instance      *)
(* does not have is undefined in both.                                       *)
(***************************************************************************)
C25_SavedPreferencesComeBackAsJSON ==
    JustSaved =>
        \A key \in PrefKeySet :
            /\ Reloaded(key) = JSON_value(Prefs_get(preferences, key))
            /\ (LastPref.op # "reset" /\ key # LastPref.key) =>
                   Reloaded(key) = JSON_value(LastPref.pre[key])

\* A saved value has come back changed by a second call, over an earlier
\* item; and a NaN has been saved.
C25_Witness ==
    /\ JustSaved
    /\ Len(prefLog) >= 2
    /\ LastPref.op \in {"set", "setMasterVolume"}
    /\ Prefs_get(preferences, LastPref.key) # LastPref.pre[LastPref.key]
    /\ \E key \in PrefKeySet : Prefs_get(preferences, key).t = "NaN"
    /\ \E key \in PrefKeySet : Prefs_get(preferences, key).t = "undefined"

(***************************************************************************)
(* AudioFileManager (04-audio-file-manager/AudioFileManager.js).            *)
(*                                                                          *)
(* loadSound is an async function: it runs to its first await within the    *)
(* call and continues, one await at a time, when the platform settles the   *)
(* promise it waits for.  A decoded buffer is named by the number of the     *)
(* loadSound call that decoded it.  Buffer sources are numbered in creation *)
(* order.                                                                    *)
(***************************************************************************)
MaxFileOps == 3      \* AudioFileManager calls per behaviour
MaxLoads == 2        \* loadSound calls per behaviour, those of preloadSounds included

SoundNames == {"a", "b"}
SoundMaps == {<< "a" >>, << "a", "b" >>}   \* the names of a soundMap, in property order
FileVolumes == {50}
FileFadeTimes == {300}
FileMasterVolumeArgs == {Num(-50), Num(150), NaN}
\* How a fetch ends: a response with ok true, a response with ok false, a rejection.
FetchOutcomes == {"ok", "status", "network"}

AFM == [buffers |-> buffers, loads |-> loads, fileSources |-> fileSources,
        fileMasterGain |-> fileMasterGain, state |-> ctxState[audioContext]]

\* The catch block of loadSound: what the call resolves to.
AFM_catch_Rethrows(error) == "rejected"

AFM_catch(error) == "false"

AFM_playLoop_Unchecked(F, name, volume) ==
    [F |-> [F EXCEPT !.fileSources =
                Append(@, [buffer |-> F.buffers[name], loop |-> TRUE, out |-> "masterGain",
                           gain |-> << SetValue(GainValue(volume), AudioNow) >>,
                           start |-> << AudioNow >>, stop |-> << >>])],
     returned |-> Len(F.fileSources) + 1]

\* loadSound up to 'await fetch(url)'; group is the preloadSounds call it belongs to.
AFM_loadSound(F, name, group) ==
    [F EXCEPT !.loads = Append(@, [name |-> name, group |-> group, stage |-> "fetch",
                                   result |-> "pending", why |-> ""])]

AFM_failed(F, i, why) ==
    [F EXCEPT !.loads[i].stage = "done", !.loads[i].result = AFM_catch(why),
              !.loads[i].why = why]

\* loadSound after 'await fetch(url)'.
AFM_fetchSettled(F, i, outcome) ==
    IF outcome = "ok"
    THEN [F EXCEPT !.loads[i].stage = "body"]
    ELSE AFM_failed(F, i, outcome)

\* loadSound after 'await response.arrayBuffer()'.
AFM_bodySettled(F, i, ok) ==
    IF ok
    THEN [F EXCEPT !.loads[i].stage = "decode"]
    ELSE AFM_failed(F, i, "body")

\* loadSound after 'await this.context.decodeAudioData(arrayBuffer)'.
AFM_decodeSettled(F, i, ok) ==
    IF ok
    THEN [F EXCEPT !.buffers[F.loads[i].name] = i,
                   !.loads[i].stage = "done", !.loads[i].result = "true"]
    ELSE AFM_failed(F, i, "decode")

\* preloadSounds up to its await: a loadSound per entry of soundMap.
RECURSIVE AFM_preloadSounds(_, _, _)
AFM_preloadSounds(F, names, group) ==
    IF names = << >>
    THEN F
    ELSE AFM_preloadSounds(AFM_loadSound(F, Head(names), group), Tail(names), group)

\* What preloadSounds resolves to once every loadSound of it has settled.
AFM_preloadResult(F, group) ==
    LET mine == {i \in DOMAIN F.loads : F.loads[i].group = group}
        successful == Cardinality({i \in mine : F.loads[i].result = "true"})
    IN [total |-> Cardinality(mine), successful |-> successful,
        failed |-> Cardinality(mine) - successful]

\* createBufferSource + createGain, wired source -> gain -> masterGain, started now.
AFM_start(F, name, loop, events) ==
    [F |-> [F EXCEPT !.fileSources =
                Append(@, [buffer |-> F.buffers[name], loop |-> loop, out |-> "masterGain",
                           gain |-> events, start |-> << AudioNow >>, stop |-> << >>])],
     returned |-> Len(F.fileSources) + 1]

AFM_playSound(F, name, volume) ==
    IF F.buffers[name] = NULL
    THEN [F |-> F, returned |-> NULL]
    ELSE AFM_start(F, name, FALSE, << SetValue(GainValue(volume), AudioNow) >>)

AFM_playSoundWithFadeIn(F, name, volume, fadeTime) ==
    IF F.buffers[name] = NULL
    THEN [F |-> F, returned |-> NULL]
    ELSE AFM_start(F, name, FALSE,
                   << SetValue(0, AudioNow), LinearRamp(GainValue(volume), AudioNow + fadeTime) >>)

\* playLoop returns { source, gainNode }: the source's number stands for both.
AFM_playLoop(F, name, volume) ==
    IF F.buffers[name] = NULL
    THEN [F |-> F, returned |-> NULL]
    ELSE AFM_start(F, name, TRUE, << SetValue(GainValue(volume), AudioNow) >>)

AFM_stopLoop(F, loopData, fadeTime) ==
    IF loopData = NULL
    THEN F
    ELSE [F EXCEPT !.fileSources[loopData].gain =
                       InsertEvent(@, LinearRamp(0, AudioNow + fadeTime)),
                   !.fileSources[loopData].stop = Append(@, AudioNow + fadeTime)]

\* setMasterVolume; setValueAtTime throws a TypeError on a value that is not finite.
AFM_setMasterVolume(F, volume) ==
    LET value == Clamp01(volume)
    IN IF value.t = "NaN"
       THEN [F |-> F, threw |-> TRUE]
       ELSE [F |-> [F EXCEPT !.fileMasterGain.gain =
                        InsertEvent(@, SetValue(GainValue(value.v), AudioNow))],
             threw |-> FALSE]

AFM_isLoaded(F, name) == F.buffers[name] # NULL

AFM_unloadSound(F, name) ==
    [F |-> [F EXCEPT !.buffers[name] = NULL], returned |-> F.buffers[name] # NULL]

AFM_clearAll(F) == [F EXCEPT !.buffers = [n \in SoundNames |-> NULL]]

AFM_dispose(F) == [AFM_clearAll(F) EXCEPT !.state = "closed"]

(***************************************************************************)
(* The AudioFileManager specification.                                      *)
(***************************************************************************)
notFileVars == <<toneOnlyVars, gameVars, musicVars, throttleVars, unlockVars, prefVars, poolVars,
                 engine, audioContext, ctxSeq, currentTime, timers, now>>

FileInit ==
    /\ engine = "AudioFileManager"
    /\ audioContext = 1
    /\ ctxSeq = 1
    /\ ctxState = << "running" >>
    /\ currentTime = << 0 >>
    /\ timers = << >>
    /\ now = 0
    /\ nOps = 0
    /\ lastOp = [op |-> "constructor", threw |-> FALSE]
    /\ NoToneEngine
    /\ NoMusicPlayer
    /\ NoThrottledSound
    /\ NoAudioUnlocker
    /\ NoAudioPreferences
    /\ NoAudioPool
    /\ buffers = [n \in SoundNames |-> NULL]
    /\ loads = << >>
    /\ fileSources = << >>
    /\ fileMasterGain = [gain |-> << >>, out |-> "destination"]
    /\ fileLog = << >>
    /\ NoBreakoutGame

FileCommit(F) ==
    /\ buffers' = F.buffers
    /\ loads' = F.loads
    /\ fileSources' = F.fileSources
    /\ fileMasterGain' = F.fileMasterGain
    /\ ctxState' = [ctxState EXCEPT ![audioContext] = F.state]

FileCanCall == nOps < MaxFileOps

\* One synchronous call, as seen from outside: what ran, on which buffers,
\* after how many loadSound calls, how many sources it created, what it returned.
FileCall(op, name, F, returned, threw) ==
    /\ FileCommit(F)
    /\ fileLog' = Append(fileLog, [op |-> op, name |-> name, pre |-> buffers,
                                   loads |-> Len(loads),
                                   created |-> Len(F.fileSources) - Len(fileSources),
                                   returned |-> returned])
    /\ lastOp' = [op |-> op, threw |-> threw]
    /\ nOps' = nOps + 1
    /\ UNCHANGED notFileVars

FileLoadSound ==
    /\ FileCanCall
    /\ Len(loads) < MaxLoads
    /\ \E name \in SoundNames :
         FileCall("loadSound", name, AFM_loadSound(AFM, name, 0), NULL, FALSE)

FilePreloadSounds ==
    /\ FileCanCall
    /\ \E soundMap \in SoundMaps :
         /\ Len(loads) + Len(soundMap) <= MaxLoads
         /\ FileCall("preloadSounds", "", AFM_preloadSounds(AFM, soundMap, nOps + 1), NULL, FALSE)

\* The platform settles the promise a loadSound call waits for.
FileSettle(F) ==
    /\ FileCommit(F)
    /\ UNCHANGED <<fileLog, lastOp, nOps, notFileVars>>

FileFetchSettles ==
    \E i \in DOMAIN loads :
        /\ loads[i].stage = "fetch"
        /\ \E outcome \in FetchOutcomes : FileSettle(AFM_fetchSettled(AFM, i, outcome))

FileBodySettles ==
    \E i \in DOMAIN loads :
        /\ loads[i].stage = "body"
        /\ \E ok \in BOOLEAN : FileSettle(AFM_bodySettled(AFM, i, ok))

FileDecodeSettles ==
    \E i \in DOMAIN loads :
        /\ loads[i].stage = "decode"
        /\ \E ok \in BOOLEAN : FileSettle(AFM_decodeSettled(AFM, i, ok))

FilePlaySound ==
    /\ FileCanCall
    /\ \E name \in SoundNames, volume \in FileVolumes :
         LET r == AFM_playSound(AFM, name, volume)
         IN FileCall("playSound", name, r.F, r.returned, FALSE)

FilePlaySoundWithFadeIn ==
    /\ FileCanCall
    /\ \E name \in SoundNames, volume \in FileVolumes, fadeTime \in FileFadeTimes :
         LET r == AFM_playSoundWithFadeIn(AFM, name, volume, fadeTime)
         IN FileCall("playSoundWithFadeIn", name, r.F, r.returned, FALSE)

FilePlayLoop ==
    /\ FileCanCall
    /\ \E name \in SoundNames, volume \in FileVolumes :
         LET r == AFM_playLoop(AFM, name, volume)
         IN FileCall("playLoop", name, r.F, r.returned, FALSE)

\* stopLoop with what a playLoop call returned: null or a loop.
FileStopLoop ==
    /\ FileCanCall
    /\ \E i \in DOMAIN fileLog, fadeTime \in FileFadeTimes :
         /\ fileLog[i].op = "playLoop"
         /\ FileCall("stopLoop", fileLog[i].name,
                     AFM_stopLoop(AFM, fileLog[i].returned, fadeTime), NULL, FALSE)

FileSetMasterVolume ==
    /\ FileCanCall
    /\ \E volume \in FileMasterVolumeArgs :
         LET r == AFM_setMasterVolume(AFM, volume)
         IN FileCall("setMasterVolume", "", r.F, NULL, r.threw)

FileUnloadSound ==
    /\ FileCanCall
    /\ \E name \in SoundNames :
         LET r == AFM_unloadSound(AFM, name)
         IN FileCall("unloadSound", name, r.F, IF r.returned THEN 1 ELSE NULL, FALSE)

FileClearAll ==
    /\ FileCanCall
    /\ FileCall("clearAll", "", AFM_clearAll(AFM), NULL, FALSE)

FileDispose ==
    /\ FileCanCall
    /\ FileCall("dispose", "", AFM_dispose(AFM), NULL, FALSE)

FileNext ==
    \/ FileLoadSound
    \/ FilePreloadSounds
    \/ FileFetchSettles
    \/ FileBodySettles
    \/ FileDecodeSettles
    \/ FilePlaySound
    \/ FilePlaySoundWithFadeIn
    \/ FilePlayLoop
    \/ FileStopLoop
    \/ FileSetMasterVolume
    \/ FileUnloadSound
    \/ FileClearAll
    \/ FileDispose

FileSpec == FileInit /\ [][FileNext]_vars

(***************************************************************************)
(* C21.  loadSound never rejects.  The step in which a loadSound call      *)
(* settles resolves it to true or to false: to true exactly when that step  *)
(* stores the buffer the call decoded under its name, and to false, after a *)
(* network error, a response that is not OK, an unreadable body or a decode *)
(* failure, with the map of loaded buffers left as it was.                  *)
(***************************************************************************)
Settles(i) == loads[i].stage # "done" /\ loads'[i].stage = "done"

C21_LoadSoundResolvesTrueOrFalse ==
    [][\A i \in DOMAIN loads :
          Settles(i) =>
              /\ loads'[i].result \in {"true", "false"}
              /\ loads'[i].result = "true" <=>
                     (buffers'[loads[i].name] = i /\ loads'[i].why = "")
              /\ loads'[i].result = "false" =>
                     /\ buffers' = buffers
                     /\ loads'[i].why \in {"network", "status", "body", "decode"}]_vars

\* One loadSound has resolved to true with its buffer in the map, another to
\* false after a decode failure.
C21_Witness ==
    \E i, j \in DOMAIN loads :
        /\ loads[i].result = "true"
        /\ buffers[loads[i].name] = i
        /\ loads[j].result = "false"
        /\ loads[j].why = "decode"

(***************************************************************************)
(* C22.  playSound, playSoundWithFadeIn and playLoop return null and       *)
(* create no source when the name is not in the map of loaded buffers; when *)
(* it is, they create and start exactly one source, playing that buffer     *)
(* through its own gain node into the master gain and from there to the     *)
(* destination, and return its handle.                                       *)
(***************************************************************************)
PlayOps == {"playSound", "playSoundWithFadeIn", "playLoop"}
FilePlays == {i \in DOMAIN fileLog : fileLog[i].op \in PlayOps}

C22_PlayStartsOneSourceOrReturnsNull ==
    \A i \in FilePlays :
        LET e == fileLog[i]
        IN IF e.pre[e.name] = NULL
           THEN e.returned = NULL /\ e.created = 0
           ELSE /\ e.created = 1
                /\ e.returned \in DOMAIN fileSources
                /\ \A j \in FilePlays : j < i => fileLog[j].returned # e.returned
                /\ fileSources[e.returned].buffer = e.pre[e.name]
                /\ Len(fileSources[e.returned].start) = 1
                /\ fileSources[e.returned].loop <=> e.op = "playLoop"
                /\ fileSources[e.returned].out = "masterGain"
                /\ fileMasterGain.out = "destination"

\* A name whose loadSound had resolved to false was played, and a loaded
\* name was played.
C22_Witness ==
    /\ \E i \in FilePlays :
          /\ fileLog[i].returned = NULL
          /\ \E j \in 1..fileLog[i].loads :
                /\ loads[j].name = fileLog[i].name
                /\ loads[j].result = "false"
    /\ \E i \in FilePlays : fileLog[i].returned # NULL

\* A name was played after it was unloaded.
C22_UnloadedNamePlayed ==
    \E i \in FilePlays :
        /\ fileLog[i].returned = NULL
        /\ \E j \in 1..(i - 1) :
              /\ fileLog[j].op = "unloadSound"
              /\ fileLog[j].name = fileLog[i].name
              /\ fileLog[j].returned # NULL

(***************************************************************************)
(* C29.  After unloadSound(name), clearAll() or dispose() has returned,    *)
(* isLoaded(name) stays false until a loadSound(name, ...) call that was    *)
(* started afterwards resolves to true.                                      *)
(***************************************************************************)
Removals(name) ==
    {i \in DOMAIN fileLog :
        \/ fileLog[i].op \in {"clearAll", "dispose"}
        \/ fileLog[i].op = "unloadSound" /\ fileLog[i].name = name}

LoadedSince(name, r) ==
    \E j \in DOMAIN loads :
        /\ j > fileLog[r].loads
        /\ loads[j].name = name
        /\ loads[j].result = "true"

C29_RemovedSoundsStayRemoved ==
    \A name \in SoundNames :
        \A r \in Removals(name) :
            ~LoadedSince(name, r) => ~AFM_isLoaded(AFM, name)

(***************************************************************************)
(* C24.  Master volume is always clamped to [0,1]: after setVolume and     *)
(* setMasterVolume calls with arbitrary numeric arguments the master        *)
(* volume of the BreakoutAudioEngine, every value scheduled on the master   *)
(* gain of the MusicPlayer and of the AudioFileManager, and the             *)
(* masterVolume preference, in the instance and as a new instance reads it  *)
(* from storage, lie within [0,1].                                           *)
(***************************************************************************)
InUnit(x) == x.t = "number" /\ x.v \in 0..100
GainInUnit(param) == \A i \in DOMAIN param : param[i].value \in 0..GainValue(100)

C24_MasterVolumeAlwaysClamped ==
    /\ masterVolume \in 0..100
    /\ engine = "MusicPlayer" => GainInUnit(masterGain.gain)
    /\ engine = "AudioFileManager" => GainInUnit(fileMasterGain.gain)
    /\ (engine = "AudioPreferences" /\ prefLog # << >>) =>
           (LastPref.op = "setMasterVolume" =>
               /\ InUnit(Prefs_get(preferences, "masterVolume"))
               /\ LastPref.saved => InUnit(Reloaded("masterVolume")))

(***************************************************************************)
(* C31.  unlock() resolves true if and only if the unlocked flag is true   *)
(* when it returns: whenever it resolves false, after a rejected resume, a  *)
(* failed node creation or a listener that threw, the unlocker is still     *)
(* locked.                                                                   *)
(***************************************************************************)
C31_UnlockResultIsUnlockedFlag ==
    \A k \in DOMAIN unlocking :
        unlocking[k].stage = "done" => (unlocking[k].result <=> unlocking[k].after)

(***************************************************************************)
(* BreakoutGame (02-breakout-game/audio-breakout.js, lines 97-307).         *)
(*                                                                          *)
(* The positions of ball, paddle and bricks are not kept: what update()     *)
(* finds when it compares them (a wall bounce, a paddle hit, a brick hit,   *)
(* the ball below the canvas) is an input of the frame, and so is every     *)
(* order of these events that the geometry allows.  The bricks are counted. *)
(* The notes that the audio engine plays from timers do not touch the game; *)
(* its direct playTone calls (wallBounce, paddleHit, brickHit) throw to     *)
(* update() when the engine has no context yet and the AudioContext          *)
(* constructor throws.                                                       *)
(***************************************************************************)
MaxGameSteps == 64   \* animation frames with an active game and SPACE presses per behaviour

Rows == 6
Cols == 10
StartLives == 3
BrickScore == 10

BG == [lives |-> lives, score |-> score, gameActive |-> gameActive,
       bricksAlive |-> bricksAlive, looping |-> looping, timers |-> timers,
       context |-> audioContext]

BG_createBricks == Rows * Cols

BG_resetBall(G) == [G EXCEPT !.gameActive = FALSE]

BG_resetLevel(G) == BG_resetBall([G EXCEPT !.bricksAlive = BG_createBricks])

BG_start(G) == [G EXCEPT !.gameActive = TRUE]

\* The keydown listener for e.key === ' '.
BG_keydownSpace_StartsWhenever(G) ==
    IF ~G.gameActive
    THEN BG_start(G)
    ELSE G

BG_keydownSpace(G) ==
    IF ~G.gameActive /\ G.lives > 0
    THEN BG_start(G)
    ELSE IF G.lives <= 0
         THEN BG_start(BG_resetLevel([G EXCEPT !.lives = StartLives, !.score = 0]))
         ELSE G

\* A direct playTone of the audio engine: it creates the context if there is
\* none, and throws if the constructor does.
BG_audio(r, throws) ==
    IF r.threw THEN r
    ELSE IF r.G.context = NULL /\ throws
         THEN [r EXCEPT !.threw = TRUE]
         ELSE [r EXCEPT !.G.context = 1]

\* update(), each part skipped once an exception is on its way out.
BG_walls(r, c, throws) == IF c.wall THEN BG_audio(r, throws) ELSE r

BG_paddle(r, c, throws) == IF ~r.threw /\ c.paddle THEN BG_audio(r, throws) ELSE r

BG_bricks(r, c, throws) ==
    IF r.threw \/ ~c.brick \/ r.G.bricksAlive = 0
    THEN r
    ELSE LET hit == BG_audio([r EXCEPT !.G.bricksAlive = @ - 1, !.G.score = @ + BrickScore],
                             throws)
         IN IF ~hit.threw /\ hit.G.bricksAlive = 0
            THEN [hit EXCEPT !.G.timers = Append(@, [kind |-> "resetLevel"])]
            ELSE hit

BG_ballLost(r, c) ==
    IF r.threw \/ ~c.lost
    THEN r
    ELSE LET G == [r.G EXCEPT !.lives = @ - 1]
         IN [r EXCEPT !.G = IF G.lives <= 0
                            THEN [G EXCEPT !.gameActive = FALSE]
                            ELSE BG_resetBall(G)]

BG_update(G, c, throws) ==
    BG_ballLost(BG_bricks(BG_paddle(BG_walls([G |-> G, threw |-> FALSE], c, throws),
                                    c, throws), c, throws), c)

\* gameLoop: an exception of update() leaves it before requestAnimationFrame.
BG_gameLoop(G, c, throws) ==
    IF G.gameActive
    THEN LET r == BG_update(G, c, throws)
         IN [G |-> [r.G EXCEPT !.looping = ~r.threw], threw |-> r.threw]
    ELSE [G |-> G, threw |-> FALSE]

Collisions == [wall : BOOLEAN, paddle : BOOLEAN, brick : BOOLEAN, lost : BOOLEAN]

notGameVars == <<toneOnlyVars, musicVars, throttleVars, fileVars, unlockVars, prefVars,
                 poolVars, engine, now>>

GameInit ==
    /\ engine = "BreakoutGame"
    /\ audioContext = NULL
    /\ ctxSeq = 0
    /\ ctxState = << >>
    /\ currentTime = << >>
    /\ timers = << >>
    /\ now = 0
    /\ nOps = 0
    /\ lastOp = [op |-> "constructor", threw |-> FALSE]
    /\ NoToneEngine
    /\ NoMusicPlayer
    /\ NoThrottledSound
    /\ NoAudioFileManager
    /\ NoAudioUnlocker
    /\ NoAudioPreferences
    /\ NoAudioPool
    /\ lives = StartLives
    /\ score = 0
    /\ gameActive = FALSE
    /\ bricksAlive = BG_createBricks
    /\ looping = TRUE

GameCommit(G) ==
    /\ lives' = G.lives
    /\ score' = G.score
    /\ gameActive' = G.gameActive
    /\ bricksAlive' = G.bricksAlive
    /\ looping' = G.looping
    /\ timers' = G.timers
    /\ audioContext' = G.context
    /\ ctxSeq' = IF G.context = NULL THEN 0 ELSE 1
    /\ ctxState' = IF G.context = NULL THEN << >> ELSE << "running" >>
    /\ currentTime' = IF G.context = NULL THEN << >> ELSE << 0 >>
    /\ UNCHANGED notGameVars

\* An animation frame while the game is active.
GameFrame ==
    /\ looping
    /\ gameActive
    /\ nOps < MaxGameSteps
    /\ \E c \in Collisions, throws \in BOOLEAN :
         LET r == BG_gameLoop(BG, c, throws)
         IN /\ GameCommit(r.G)
            /\ lastOp' = [op |-> "frame", threw |-> r.threw]
    /\ nOps' = nOps + 1

\* The SPACE key goes down.
GameKeydownSpace ==
    /\ nOps < MaxGameSteps
    /\ GameCommit(BG_keydownSpace(BG))
    /\ lastOp' = [op |-> "keydown", threw |-> FALSE]
    /\ nOps' = nOps + 1

\* The timer of a completed level runs resetLevel.
GameTimerFire ==
    /\ timers # << >>
    /\ GameCommit(BG_resetLevel([BG EXCEPT !.timers = Tail(@)]))
    /\ lastOp' = [op |-> "resetLevel", threw |-> FALSE]
    /\ UNCHANGED nOps

GameNext ==
    \/ GameFrame
    \/ GameKeydownSpace
    \/ GameTimerFire

GameSpec == GameInit /\ [][GameNext]_vars

(***************************************************************************)
(* C33.  In every reachable BreakoutGame state 0 <= lives <= 3, and        *)
(* gameActive implies lives >= 1.                                            *)
(***************************************************************************)
C33_LivesStayInRange ==
    /\ lives \in 0..StartLives
    /\ gameActive => lives >= 1

\* The last ball of a game has just been lost.
C33_Witness ==
    /\ lives = 0
    /\ ~gameActive
    /\ lastOp.op = "frame"

====
